---- MODULE Spec2Model ----
(***************************************************************************)
(* Chapter-processing pipeline of the audio-book backend:                  *)
(*   backend/app/services/translation_service.py  (TranslationService)     *)
(*   backend/app/services/tts_service.py          (TTSService)             *)
(*   backend/app/services/epub_service.py         (chapter content)        *)
(*                                                                         *)
(* Text is a sequence of one-character strings.  Chinese characters are    *)
(* written as ASCII tokens: "T" stands for any CJK letter produced by the  *)
(* translation provider, "juhao" for the full stop U+3002, and the numeral *)
(* tokens "ling" .. "jiu", "shi", "bai", "dian" for the numerals.          *)
(*                                                                         *)
(* The services run on one asyncio event loop: the code between two real   *)
(* suspension points (an HTTP round trip, asyncio.sleep, run_in_executor)  *)
(* is one atomic action.                                                   *)
(***************************************************************************)
EXTENDS Integers, Sequences, FiniteSets, TLC

\* ---------------------------------------------------------------- bounds
\* number of tasks (chapter translation or chapter audio) created in one run
MaxTasks == 2
\* polls of one speech-synthesis job that find it still pending or processing
MaxPolls == 1
\* settings.chunk_size, scaled down from 1000 characters
chunk_size == 4
\* _split_text_for_tts max_length, scaled down from 1000 characters
max_length == 4
\* length of the longest text the Segmenter is called with alone
MaxTextLen == 5
\* largest maximum length the Segmenter is called with alone
MaxSize == 3
\* hours the clock runs for when cleanup is exercised
MaxClock == 1
\* largest max_age_hours cleanup is called with
MaxAgeHours == 1

\* ------------------------------------------------------- program constants
max_retries == 3

\* ---------------------------------------------------------- text helpers
Whitespace == {" ", "\n", "\t"}

Terminators == {".", "!", "?"}

Digits == {"0", "1", "2", "3", "4", "5", "6", "7", "8", "9"}

\* characters matched by \w: letters, digits, underscore and CJK letters
WordChars == Digits \cup {"a", "b", "c", "d", "T", "_",
                          "ling", "yi", "er", "san", "si", "wu", "liu",
                          "qi", "ba", "jiu", "shi", "bai", "dian"}

StartsWithAt(s, i, p) ==
    /\ i + Len(p) - 1 <= Len(s)
    /\ \A k \in 1..Len(p) : s[i + k - 1] = p[k]

\* str.split(sep) continued from position i with the piece cur in progress
RECURSIVE SplitAcc(_, _, _, _)
SplitAcc(s, sep, i, cur) ==
    IF i > Len(s) THEN <<cur>>
    ELSE IF StartsWithAt(s, i, sep)
         THEN <<cur>> \o SplitAcc(s, sep, i + Len(sep), <<>>)
         ELSE SplitAcc(s, sep, i + 1, Append(cur, s[i]))

\* mutant: the text is cut at every newline
StrSplit_Lines(s, sep) == SplitAcc(s, <<"\n">>, 1, <<>>)

\* str.split(sep)
StrSplit(s, sep) == SplitAcc(s, sep, 1, <<>>)

RECURSIVE LStrip(_)
LStrip(s) ==
    IF s # <<>> /\ Head(s) \in Whitespace THEN LStrip(Tail(s)) ELSE s

RECURSIVE RStrip(_)
RStrip(s) ==
    IF s # <<>> /\ s[Len(s)] \in Whitespace
    THEN RStrip(SubSeq(s, 1, Len(s) - 1)) ELSE s

\* str.strip()
Strip(s) == RStrip(LStrip(s))

\* sep.join(parts)
RECURSIVE StrJoin(_, _)
StrJoin(parts, sep) ==
    IF parts = <<>> THEN <<>>
    ELSE IF Len(parts) = 1 THEN parts[1]
    ELSE parts[1] \o sep \o StrJoin(Tail(parts), sep)

\* first index >= i of s whose character is not in set (Len(s)+1 if none)
RECURSIVE SkipWhile(_, _, _)
SkipWhile(s, i, set) ==
    IF i <= Len(s) /\ s[i] \in set THEN SkipWhile(s, i + 1, set) ELSE i

\* str.replace(old, new) for a one-character old
StrReplace(s, old, new) == [k \in 1..Len(s) |-> IF s[k] = old THEN new ELSE s[k]]

\* s.endswith(p)
EndsWith(s, p) ==
    /\ Len(p) <= Len(s)
    /\ StartsWithAt(s, Len(s) - Len(p) + 1, p)

\* p in s
Contains(s, p) == \E i \in 1..(Len(s) + 1) : StartsWithAt(s, i, p)

\* ------------------------------------------------ Segmenter (translation)
\* re.split(r'[.!?]+\s+', s) continued from position i
RECURSIVE ReSplitAcc(_, _, _)
ReSplitAcc(s, i, cur) ==
    IF i > Len(s) THEN <<cur>>
    ELSE IF s[i] \in Terminators
         THEN LET j == SkipWhile(s, i, Terminators)
                  k == SkipWhile(s, j, Whitespace)
              IN  IF k > j
                  THEN <<cur>> \o ReSplitAcc(s, k, <<>>)
                  ELSE ReSplitAcc(s, j, cur \o SubSeq(s, i, j - 1))
         ELSE ReSplitAcc(s, i + 1, Append(cur, s[i]))

SentenceSplit(s) == ReSplitAcc(s, 1, <<>>)

Min(a, b) == IF a < b THEN a ELSE b

\* mutant: an over-long sentence is kept whole
ForceSlices_Whole(sentence, size) == <<sentence>>

\* [sentence[i:i+size] for i in range(0, len(sentence), size)]
ForceSlices(sentence, size) ==
    [k \in 1..((Len(sentence) + size - 1) \div size) |->
        SubSeq(sentence, (k - 1) * size + 1, Min(k * size, Len(sentence)))]

\* the for loop of _split_paragraph_by_sentences from sentence idx on
RECURSIVE SentenceLoop(_, _, _, _, _)
SentenceLoop(sentences, idx, chunks, current_chunk, size) ==
    IF idx > Len(sentences)
    THEN IF current_chunk # <<>>
         THEN Append(chunks, Strip(current_chunk)) ELSE chunks
    ELSE LET sentence == sentences[idx] IN
         IF Len(sentence) > size
         THEN SentenceLoop(sentences, idx + 1,
                  (IF current_chunk # <<>>
                   THEN Append(chunks, Strip(current_chunk)) ELSE chunks)
                  \o ForceSlices(sentence, size),
                  <<>>, size)
         ELSE IF Len(current_chunk) + Len(sentence) + 1 > size
                 /\ current_chunk # <<>>
         THEN SentenceLoop(sentences, idx + 1,
                  Append(chunks, Strip(current_chunk)), sentence, size)
         ELSE SentenceLoop(sentences, idx + 1, chunks,
                  (IF current_chunk # <<>>
                   THEN current_chunk \o <<" ">> \o sentence
                   ELSE sentence),
                  size)

split_paragraph_by_sentences(paragraph, size) ==
    SentenceLoop(SentenceSplit(paragraph), 1, <<>>, <<>>, size)

\* mutant: the buffer is flushed before every paragraph, nothing is packed
RECURSIVE ParagraphLoop_FlushEach(_, _, _, _, _)
ParagraphLoop_FlushEach(paragraphs, idx, chunks, current_chunk, size) ==
    IF idx > Len(paragraphs)
    THEN IF current_chunk # <<>>
         THEN Append(chunks, Strip(current_chunk)) ELSE chunks
    ELSE LET paragraph == paragraphs[idx] IN
         IF Len(paragraph) > size
         THEN ParagraphLoop_FlushEach(paragraphs, idx + 1,
                  (IF current_chunk # <<>>
                   THEN Append(chunks, Strip(current_chunk)) ELSE chunks)
                  \o split_paragraph_by_sentences(paragraph, size),
                  <<>>, size)
         ELSE ParagraphLoop_FlushEach(paragraphs, idx + 1,
                  (IF current_chunk # <<>>
                   THEN Append(chunks, Strip(current_chunk)) ELSE chunks),
                  paragraph, size)

\* the for loop of _split_text_into_chunks from paragraph idx on
RECURSIVE ParagraphLoop(_, _, _, _, _)
ParagraphLoop(paragraphs, idx, chunks, current_chunk, size) ==
    IF idx > Len(paragraphs)
    THEN IF current_chunk # <<>>
         THEN Append(chunks, Strip(current_chunk)) ELSE chunks
    ELSE LET paragraph == paragraphs[idx] IN
         IF Len(paragraph) > size
         THEN ParagraphLoop(paragraphs, idx + 1,
                  (IF current_chunk # <<>>
                   THEN Append(chunks, Strip(current_chunk)) ELSE chunks)
                  \o split_paragraph_by_sentences(paragraph, size),
                  <<>>, size)
         ELSE IF Len(current_chunk) + Len(paragraph) + 2 > size
                 /\ current_chunk # <<>>
         THEN ParagraphLoop(paragraphs, idx + 1,
                  Append(chunks, Strip(current_chunk)), paragraph, size)
         ELSE ParagraphLoop(paragraphs, idx + 1, chunks,
                  (IF current_chunk # <<>>
                   THEN current_chunk \o <<"\n", "\n">> \o paragraph
                   ELSE paragraph),
                  size)

split_text_into_chunks(text, size) ==
    ParagraphLoop(StrSplit(text, <<"\n", "\n">>), 1, <<>>, <<>>, size)

\* ----------------------------------------------------- Segmenter (speech)
\* the for loop of _split_text_for_tts from sentence idx on
RECURSIVE TtsLoop(_, _, _, _, _)
TtsLoop(sentences, idx, segments, current_segment, maxlen) ==
    IF idx > Len(sentences)
    THEN IF current_segment # <<>>
         THEN Append(segments, current_segment \o <<"juhao">>) ELSE segments
    ELSE LET sentence == Strip(sentences[idx]) IN
         IF sentence = <<>>
         THEN TtsLoop(sentences, idx + 1, segments, current_segment, maxlen)
         ELSE IF Len(current_segment) + Len(sentence) > maxlen
                 /\ current_segment # <<>>
         THEN TtsLoop(sentences, idx + 1,
                  Append(segments, current_segment \o <<"juhao">>),
                  sentence, maxlen)
         ELSE TtsLoop(sentences, idx + 1, segments,
                  (IF current_segment # <<>>
                   THEN current_segment \o <<"juhao">> \o sentence
                   ELSE sentence),
                  maxlen)

split_text_for_tts(text, maxlen) ==
    TtsLoop(StrSplit(text, <<"juhao">>), 1, <<>>, <<>>, maxlen)

\* ------------------------------------------------------ digit normalizer
digit_map ==
    [d \in Digits |->
        CASE d = "0" -> "ling" [] d = "1" -> "yi"  [] d = "2" -> "er"
          [] d = "3" -> "san"  [] d = "4" -> "si"  [] d = "5" -> "wu"
          [] d = "6" -> "liu"  [] d = "7" -> "qi"  [] d = "8" -> "ba"
          [] d = "9" -> "jiu"]

DigitValue(d) ==
    CASE d = "0" -> 0 [] d = "1" -> 1 [] d = "2" -> 2 [] d = "3" -> 3
      [] d = "4" -> 4 [] d = "5" -> 5 [] d = "6" -> 6 [] d = "7" -> 7
      [] d = "8" -> 8 [] d = "9" -> 9

\* str(n) for 0 <= n <= 9
DigitStr(n) == CHOOSE d \in Digits : DigitValue(d) = n

\* int(num_str)
RECURSIVE ToInt(_)
ToInt(s) ==
    IF s = <<>> THEN 0
    ELSE 10 * ToInt(SubSeq(s, 1, Len(s) - 1)) + DigitValue(s[Len(s)])

\* ''.join(digit_map[d] for d in s)
DigitByDigit(s) == [k \in 1..Len(s) |-> digit_map[s[k]]]

IsDigitStr(s) == s # <<>> /\ \A k \in 1..Len(s) : s[k] \in Digits

convert_integer_to_chinese(num_str) ==
    IF ~IsDigitStr(num_str) THEN num_str
    ELSE IF Len(num_str) = 4 THEN DigitByDigit(num_str)
    ELSE LET num == ToInt(num_str) IN
         IF num = 0 THEN <<"ling">>
         ELSE IF num < 10 THEN <<digit_map[DigitStr(num)]>>
         ELSE IF num < 100
         THEN LET tens == num \div 10
                  ones == num % 10
              IN  IF ones = 0 THEN <<digit_map[DigitStr(tens)], "shi">>
                  ELSE IF tens = 1 THEN <<"shi", digit_map[DigitStr(ones)]>>
                  ELSE <<digit_map[DigitStr(tens)], "shi",
                         digit_map[DigitStr(ones)]>>
         ELSE IF num < 1000
         THEN LET hundreds  == num \div 100
                  remainder == num % 100
                  result    == <<digit_map[DigitStr(hundreds)], "bai">>
                  tens      == remainder \div 10
                  ones      == remainder % 10
              IN  IF remainder = 0 THEN result
                  ELSE IF remainder < 10
                  THEN result \o <<"ling", digit_map[DigitStr(remainder)]>>
                  ELSE IF ones = 0
                  THEN result \o <<digit_map[DigitStr(tens)], "shi">>
                  ELSE result \o <<digit_map[DigitStr(tens)], "shi",
                                   digit_map[DigitStr(ones)]>>
         ELSE DigitByDigit(num_str)

CountDots(s) == Cardinality({k \in 1..Len(s) : s[k] = "."})

number_to_chinese(num_str) ==
    LET parts == StrSplit(num_str, <<".">>) IN
    IF CountDots(num_str) > 1
    THEN StrJoin([k \in 1..Len(parts) |->
                     convert_integer_to_chinese(parts[k])], <<"dian">>)
    ELSE IF CountDots(num_str) = 1
    THEN convert_integer_to_chinese(parts[1]) \o <<"dian">>
         \o DigitByDigit(parts[2])
    ELSE convert_integer_to_chinese(num_str)

\* \b at the gap before position j
WordBoundary(s, j) ==
    LET before == j > 1 /\ j - 1 <= Len(s) /\ s[j - 1] \in WordChars
        after  == j <= Len(s) /\ s[j] \in WordChars
    IN  before # after

\* greedy (?:\.\d+)* from j; <<end of the chain, end of the chain without
\* its last group>>, both exclusive
RECURSIVE GroupChain(_, _, _)
GroupChain(s, j, prev) ==
    IF j + 1 <= Len(s) /\ s[j] = "." /\ s[j + 1] \in Digits
    THEN GroupChain(s, SkipWhile(s, j + 1, Digits), j)
    ELSE <<j, prev>>

\* last index of the match of \b\d+(?:\.\d+)*\b starting at i, 0 if none
NumberMatchEnd(s, i) ==
    IF ~(s[i] \in Digits /\ WordBoundary(s, i)) THEN 0
    ELSE LET chain == GroupChain(s, SkipWhile(s, i, Digits), 0) IN
         IF WordBoundary(s, chain[1]) THEN chain[1] - 1
         ELSE IF chain[2] # 0 THEN chain[2] - 1
         ELSE 0

\* re.sub(pattern, replace_number, s) continued from position i
RECURSIVE ConvertAcc(_, _)
ConvertAcc(s, i) ==
    IF i > Len(s) THEN <<>>
    ELSE LET e == NumberMatchEnd(s, i) IN
         IF e = 0 THEN <<s[i]>> \o ConvertAcc(s, i + 1)
         ELSE number_to_chinese(SubSeq(s, i, e)) \o ConvertAcc(s, e + 1)

convert_numbers_to_chinese(text) == ConvertAcc(text, 1)

\* ------------------------------------------------------- markup cleaning
\* tokens that stand for one whole tag of the chapter markup
XmlDecls == {"<?xml?>", "<!DOCTYPE>"}

OpenP == {"<p>"}

CloseP == {"</p>"}

OtherTags == {"<b>", "</b>"}

DropTokens(s, set) == SelectSeq(s, LAMBDA c : c \notin set)

\* re.sub(r'</p>\s*<p[^>]*>', '\n\n', s) continued from position i
RECURSIVE ParagraphBreaks(_, _)
ParagraphBreaks(s, i) ==
    IF i > Len(s) THEN <<>>
    ELSE LET j == SkipWhile(s, i + 1, Whitespace) IN
         IF s[i] \in CloseP /\ j <= Len(s) /\ s[j] \in OpenP
         THEN <<"\n", "\n">> \o ParagraphBreaks(s, j + 1)
         ELSE <<s[i]>> \o ParagraphBreaks(s, i + 1)

\* last index <= j and >= i of s holding c, 0 if none
RECURSIVE LastIndexOf(_, _, _, _)
LastIndexOf(s, c, i, j) ==
    IF j < i THEN 0
    ELSE IF s[j] = c THEN j ELSE LastIndexOf(s, c, i, j - 1)

\* re.sub(r'\n\s*\n\s*\n', '\n\n', s) continued from position i
RECURSIVE BlankLines(_, _)
BlankLines(s, i) ==
    IF i > Len(s) THEN <<>>
    ELSE LET run  == SkipWhile(s, i, Whitespace)
             last == LastIndexOf(s, "\n", i + 1, run - 1)
             mid  == IF last = 0 THEN 0
                     ELSE LastIndexOf(s, "\n", i + 1, last - 1)
         IN  IF s[i] = "\n" /\ mid # 0
             THEN <<"\n", "\n">> \o BlankLines(s, last + 1)
             ELSE <<s[i]>> \o BlankLines(s, i + 1)

\* re.sub(r'[ \t]+', ' ', s) continued from position i
RECURSIVE MergeSpaces(_, _)
MergeSpaces(s, i) ==
    IF i > Len(s) THEN <<>>
    ELSE IF s[i] \in {" ", "\t"}
         THEN <<" ">> \o MergeSpaces(s, SkipWhile(s, i, {" ", "\t"}))
         ELSE <<s[i]>> \o MergeSpaces(s, i + 1)

clean_html_content(html_content) ==
    LET c1 == DropTokens(html_content, XmlDecls)
        c2 == ParagraphBreaks(c1, 1)
        c3 == DropTokens(c2, OpenP)
        c4 == [k \in 1..Len(c3) |-> IF c3[k] \in CloseP THEN "\n" ELSE c3[k]]
        c5 == DropTokens(c4, OtherTags)
        c6 == BlankLines(c5, 1)
        c7 == MergeSpaces(c6, 1)
    IN  Strip(c7)

\* --------------------------------------------------- chapter content store
NoneText == <<"None">>

NoTime == -1

\* the document items of the one uploaded book, in spine order; content is
\* the markup as EpubService._clean_html_content leaves it
BookItems ==
    <<[id |-> <<"x", "1">>, name |-> <<"c", "1">>,
       content |-> <<"<p>", "a", "a", "</p>", "\n", "<p>", "b", "b", "</p>">>],
      [id |-> <<"x", "2">>, name |-> <<"c", "2">>,
       content |-> <<"<?xml?>", "<p>", " ", "</p>">>]>>

\* book ids that have a book_info file
KnownBooks == {"b1"}

\* str.lower()
Lower(s) ==
    [k \in 1..Len(s) |->
        CASE s[k] = "C" -> "c" [] s[k] = "X" -> "x" [] OTHER -> s[k]]

ExactMatch(item, chapter_id) ==
    \/ item.id = chapter_id
    \/ item.name = chapter_id
    \/ EndsWith(item.name, chapter_id)

FuzzyMatch(item, chapter_id) ==
    \/ Contains(Lower(item.name), Lower(chapter_id))
    \/ Contains(Lower(item.id), Lower(chapter_id))

\* mutant: when no item matches, the first item is taken
FirstIndex_FirstOnMiss(matching) ==
    IF matching = {} THEN 1
    ELSE CHOOSE k \in matching : \A m \in matching : k <= m

\* index of the first item of BookItems among matching, 0 if there is none
FirstIndex(matching) ==
    IF matching = {} THEN 0
    ELSE CHOOSE k \in matching : \A m \in matching : k <= m

\* EpubService.get_chapter_content: [ok, value], value the content or the
\* message of the exception raised
get_chapter_content(book_id, chapter_id) ==
    IF book_id \notin KnownBooks
    THEN [ok |-> FALSE, value |-> <<"book_not_found", book_id>>]
    ELSE LET exact == FirstIndex({k \in 1..Len(BookItems) :
                                     ExactMatch(BookItems[k], chapter_id)})
             fuzzy == FirstIndex({k \in 1..Len(BookItems) :
                                     FuzzyMatch(BookItems[k], chapter_id)})
         IN  IF exact # 0
             THEN [ok |-> TRUE, value |-> BookItems[exact].content]
             ELSE IF fuzzy # 0
             THEN [ok |-> TRUE, value |-> BookItems[fuzzy].content]
             ELSE [ok |-> FALSE,
                   value |-> <<"chapter_not_found">> \o chapter_id]

\* (book_id, chapter_id) pairs the triggering requests carry
Requests ==
    {<<"b1", <<"c", "1">>>>, <<"b1", <<"c", "2">>>>,
     <<"b1", <<"z">>>>, <<"bX", <<"c", "1">>>>}

\* requests whose chapter id is the end of a chapter's name, a chapter's
\* name in another case, or no chapter's, and one for an unknown book
ChapterRequests ==
    {<<"b1", <<"1">>>>, <<"b1", <<"C", "1">>>>,
     <<"b1", <<"z">>>>, <<"bX", <<"c", "1">>>>}

\* chapter_id.replace('/', '_').replace('\\', '_')
safe_chapter_id(chapter_id) ==
    StrReplace(StrReplace(chapter_id, "/", "_"), "\\", "_")

\* file path of _save_translation and get_translation_result
translation_path(book_id, chapter_id) == <<book_id, safe_chapter_id(chapter_id)>>

TranslationPaths ==
    {translation_path(r[1], r[2]) : r \in Requests \cup ChapterRequests}

\* ------------------------------------------------- translation provider
\* HTTP status codes the provider answers with
StatusCodes == {200, 302, 400, 500}

StatusText(status) ==
    CASE status = 200 -> "200" [] status = 302 -> "302"
      [] status = 400 -> "400" [] status = 500 -> "500"

\* result.json() of a 200 response: which of the expected fields it has
Shapes == {"ok", "no_choices", "no_message", "no_content"}

\* choices[0].message.content the provider may return for a chunk
Contents(chunk) ==
    {<<" ", "2", "juhao", "T">> \o chunk \o <<"\n">>,
     <<" ">>}

\* what one POST /chat/completions for chunk can end with: a response, or
\* an httpx.RequestError whose text does or does not contain "timeout"
Outcomes(chunk) ==
    {[kind |-> "response", status |-> st, shape |-> "ok",
      content |-> <<>>, timeout_text |-> FALSE] : st \in StatusCodes \ {200}}
    \cup
    {[kind |-> "response", status |-> 200, shape |-> sh,
      content |-> <<>>, timeout_text |-> FALSE] : sh \in Shapes \ {"ok"}}
    \cup
    {[kind |-> "response", status |-> 200, shape |-> "ok",
      content |-> c, timeout_text |-> FALSE] : c \in Contents(chunk)}
    \cup
    {[kind |-> "request_error", status |-> 0, shape |-> "ok",
      content |-> <<>>, timeout_text |-> b] : b \in BOOLEAN}

\* class of an outcome, as the error taxonomy names it
OutcomeClass(o) ==
    IF o.kind = "request_error"
    THEN (IF o.timeout_text THEN "timeout" ELSE "connect")
    ELSE IF o.status >= 500 THEN "5xx"
    ELSE IF o.status >= 400 THEN "4xx"
    ELSE IF o.status # 200 THEN "3xx"
    ELSE IF o.shape # "ok" THEN "malformed"
    ELSE IF Strip(o.content) = <<>> THEN "empty"
    ELSE "ok"

\* ---------------------------------------------- Retrying Remote Caller
MaxRetriesText == "3"

\* mutant: no request error is taken for a timeout
IsTimeoutError_Never(o) == FALSE

\* "timeout" in str(e).lower()
IsTimeoutError(o) == o.timeout_text

\* mutant: 4xx responses are retried too
IsServerError_ClientToo(status) == status >= 400

\* mutant: a plain 500 is not taken for a server error
IsServerError_Above500(status) == status > 500

\* response.status_code >= 500
IsServerError(status) == status >= 500

\* the message of the exception raised for a RequestError once
\* retry_count has been incremented to rc and no retry is made
RequestErrorMessage(rc, o) ==
    IF rc >= max_retries
    THEN <<"network_request_failed_after_retries", MaxRetriesText,
           OutcomeClass(o)>>
    ELSE <<"network_request_failed", OutcomeClass(o)>>

\* the message of the exception raised for a non-200 response, as the
\* generic handler re-raises it
StatusErrorMessage(status) ==
    <<"translation_processing_failed", "api_request_failed",
      StatusText(status)>>

\* the text a well-formed response yields (target_lang is "zh")
TranslatedText(content) == convert_numbers_to_chinese(Strip(content))

\* mutant: a timeout or a 5xx response is retried without counting it
Attempt_RetryForever(retry_count, o) ==
    IF o.kind = "request_error" \/ IsServerError(o.status)
    THEN [kind |-> "retry", retry_count |-> retry_count, value |-> <<>>]
    ELSE IF o.status = 200 /\ o.shape = "ok" /\ Strip(o.content) # <<>>
    THEN [kind |-> "return", retry_count |-> retry_count,
          value |-> TranslatedText(o.content)]
    ELSE [kind |-> "raise", retry_count |-> retry_count,
          value |-> <<"translation_processing_failed", "fatal">>]

\* mutant: a 5xx response is retried without being counted
Attempt_ServerUncounted(retry_count, o) ==
    IF o.kind = "request_error"
    THEN LET rc == retry_count + 1 IN
         IF rc < max_retries /\ IsTimeoutError(o)
         THEN [kind |-> "retry", retry_count |-> rc, value |-> <<>>]
         ELSE [kind |-> "raise", retry_count |-> rc,
               value |-> RequestErrorMessage(rc, o)]
    ELSE IF IsServerError(o.status)
    THEN [kind |-> "retry", retry_count |-> retry_count, value |-> <<>>]
    ELSE IF o.status # 200
    THEN [kind |-> "raise", retry_count |-> retry_count,
          value |-> StatusErrorMessage(o.status)]
    ELSE IF o.shape # "ok" \/ Strip(o.content) = <<>>
    THEN [kind |-> "raise", retry_count |-> retry_count,
          value |-> <<"translation_processing_failed", "bad_response_format">>]
    ELSE [kind |-> "return", retry_count |-> retry_count,
          value |-> TranslatedText(o.content)]

\* one pass through the body of the while loop of
\* _translate_with_siliconflow, given the outcome of its POST:
\* kind "retry" (continue after the sleep), "raise" or "return"
Attempt(retry_count, o) ==
    IF o.kind = "request_error"
    THEN LET rc == retry_count + 1 IN
         IF rc < max_retries /\ IsTimeoutError(o)
         THEN [kind |-> "retry", retry_count |-> rc, value |-> <<>>]
         ELSE [kind |-> "raise", retry_count |-> rc,
               value |-> RequestErrorMessage(rc, o)]
    ELSE IF o.status # 200
    THEN LET rc == IF IsServerError(o.status)
                   THEN retry_count + 1 ELSE retry_count
         IN  IF IsServerError(o.status) /\ rc < max_retries
             THEN [kind |-> "retry", retry_count |-> rc, value |-> <<>>]
             ELSE [kind |-> "raise", retry_count |-> rc,
                   value |-> StatusErrorMessage(o.status)]
    ELSE IF o.shape = "no_choices"
    THEN [kind |-> "raise", retry_count |-> retry_count,
          value |-> <<"translation_processing_failed", "bad_response_format">>]
    ELSE IF o.shape \in {"no_message", "no_content"}
    THEN [kind |-> "raise", retry_count |-> retry_count,
          value |-> <<"translation_processing_failed", "bad_message_format">>]
    ELSE IF Strip(o.content) = <<>>
    THEN [kind |-> "raise", retry_count |-> retry_count,
          value |-> <<"translation_processing_failed", "empty_result">>]
    ELSE [kind |-> "return", retry_count |-> retry_count,
          value |-> TranslatedText(o.content)]

\* TranslationService.translate wraps whatever the caller raises
TranslateError(msg) == <<"translation_failed">> \o msg

\* ------------------------------------------------------------- the state
VARIABLES
    clock,              \* datetime.now()
    siliconflow_client, \* TRUE once _init_ai_clients has set the client up
    active_tasks,       \* TranslationService.active_tasks: id -> task record
    job,                \* frame of each _process_chapter_translation
    translations,       \* translation files: path -> text, NoneText if absent
    writer,             \* per translation file: id of the job that last wrote it
    hist,               \* per translation job: what it has done so far
    call,               \* frame of a translate() call made by POST /translate
    audio_tasks,        \* TTSService.active_tasks: id -> task record
    audio_job,          \* frame of each _process_chapter_audio_generation
    audio_files,        \* chapter audio files: path -> duration, NoTime if absent
    segment_files,      \* per audio job: indexes of its segment files on disk
    seg,                \* frame of a _split_text_into_chunks call made alone
    cleaned,            \* the cleanup calls made and what the last one returned
    book,               \* frame and files of a merge_book_audio call
    located,            \* two (book, chapter) pairs and their output paths
    speech,             \* the speech service: its tasks, threads and replies
    rejected            \* the last generate_chapter_audio call that raised

\* ids of the tasks (translation or audio) created in one run
TaskIds == 1..MaxTasks

\* results of os.makedirs / open / write in _save_translation
SaveOutcomes == {"ok", "open_error", "write_error"}

\* mutant: the task is registered as already running
NewTranslationTask_Started(book_id, chapter_id, now) ==
    [book_id |-> book_id, chapter_id |-> chapter_id, status |-> "in_progress",
     progress |-> <<0, 1>>, created_at |-> now, completed_at |-> NoTime,
     error_message |-> NoneText]

\* TranslationTask(id, book_id, chapter_id, status=PENDING, created_at=now)
NewTranslationTask(book_id, chapter_id, now) ==
    [book_id |-> book_id, chapter_id |-> chapter_id, status |-> "pending",
     progress |-> <<0, 1>>, created_at |-> now, completed_at |-> NoTime,
     error_message |-> NoneText]

IdleJob ==
    [pc |-> "none", chunks |-> <<>>, i |-> 0, translated_chunks |-> <<>>,
     retry_count |-> 0]

\* status_log: the values assigned to task.status, in order
\* calls:      the chunk index (from 1) of every translate() call, in order
\* call_error: the message raised by the last call, NoneText if none
\* results:    per chunk index, the text its call returned
\* fetches:    calls of get_chapter_content
\* saves:      the texts this job wrote to its translation file
\* reply:      what the caller of translate_chapter was given
EmptyHist ==
    [status_log |-> <<>>, calls |-> <<>>, call_error |-> NoneText,
     results |-> <<>>, fetches |-> 0, saves |-> <<>>, reply |-> NoneText]

\* return task_id: the reply to the caller that triggered a job
TaskIdReply == <<"task_id">>

\* progress as a fraction <<numerator, denominator>>
ChunkProgress(i, total_chunks) == <<i + 1, total_chunks>>

CompletedProgress == <<1, 1>>

\* "\n\n".join(translated_chunks)
JoinTranslation(translated_chunks) == StrJoin(translated_chunks, <<"\n", "\n">>)

\* mutant: the new chunk is put in front
AppendChunk_Prepend(translated_chunks, translated_chunk) ==
    <<translated_chunk>> \o translated_chunks

\* translated_chunks.append(translated_chunk)
AppendChunk(translated_chunks, translated_chunk) ==
    Append(translated_chunks, translated_chunk)

\* mutant: the job never marks the task InProgress
MarkInProgress_Skip(task) == task

\* task.status = TaskStatus.IN_PROGRESS
MarkInProgress(task) == [task EXCEPT !.status = "in_progress"]

\* mutant: a failing job resets the progress
FailTask_ResetProgress(task, h, msg, now) ==
    [task |-> [task EXCEPT !.status = "failed", !.error_message = msg,
                           !.completed_at = now, !.progress = <<0, 1>>],
     hist |-> [h EXCEPT !.status_log = Append(@, "failed")]]

\* the except branch of _process_chapter_translation
FailTask(task, h, msg, now) ==
    [task |-> [task EXCEPT !.status = "failed", !.error_message = msg,
                           !.completed_at = now],
     hist |-> [h EXCEPT !.status_log = Append(@, "failed")]]

\* a step result that leaves the translation file alone
NoWrite(task, jb, h) ==
    [task |-> task, job |-> jb, hist |-> h, write |-> FALSE, text |-> <<>>]

\* mutant: a failing job saves the chunks translated so far
Failed_SavePartial(task, jb, h, msg, now) ==
    LET f == FailTask(task, h, msg, now)
        partial == JoinTranslation(jb.translated_chunks)
    IN  [task |-> f.task, job |-> [jb EXCEPT !.pc = "done", !.retry_count = 0],
         hist |-> [f.hist EXCEPT !.saves = Append(@, partial)],
         write |-> TRUE, text |-> partial]

\* mutant: the error escapes the job, nothing is recorded on the task
Failed_Unhandled(task, jb, h, msg, now) ==
    NoWrite(task, [jb EXCEPT !.pc = "done", !.retry_count = 0], h)

\* the job ends Failed with msg
Failed(task, jb, h, msg, now) ==
    LET f == FailTask(task, h, msg, now) IN
    NoWrite(f.task, [jb EXCEPT !.pc = "done", !.retry_count = 0], f.hist)

\* mutant: the status is written, the progress is not
CompleteTask_Torn(task, now) ==
    [task EXCEPT !.status = "completed", !.completed_at = now]

\* the task record once the translation is saved
CompleteTask(task, now) ==
    [task EXCEPT !.status = "completed", !.progress = CompletedProgress,
                 !.completed_at = now]

\* mutant: an error of the save is swallowed and the task marked Completed
Persist_IgnoreSaveError(task, jb, h, save, now) ==
    LET full_translation == JoinTranslation(jb.translated_chunks) IN
    [task |-> CompleteTask(task, now),
     job |-> [jb EXCEPT !.pc = "done"],
     hist |-> [h EXCEPT !.status_log = Append(@, "completed"),
                        !.saves = IF save = "ok"
                                  THEN Append(@, full_translation) ELSE @],
     write |-> save = "ok", text |-> full_translation]

\* mutant: only the chunk translated last is written to the file
Persist_LastChunkOnly(task, jb, h, save, now) ==
    LET full_translation == IF jb.translated_chunks = <<>> THEN <<>>
                            ELSE jb.translated_chunks[Len(jb.translated_chunks)]
    IN
    IF save = "ok"
    THEN [task |-> CompleteTask(task, now),
          job |-> [jb EXCEPT !.pc = "done"],
          hist |-> [h EXCEPT !.status_log = Append(@, "completed"),
                             !.saves = Append(@, full_translation)],
          write |-> TRUE, text |-> full_translation]
    ELSE IF save = "write_error"
    THEN LET f == FailTask(task, h, <<"os_error", "write">>, now) IN
         [task |-> f.task, job |-> [jb EXCEPT !.pc = "done"],
          hist |-> [f.hist EXCEPT !.saves = Append(@, <<>>)],
          write |-> TRUE, text |-> <<>>]
    ELSE Failed(task, jb, h, <<"os_error", "open">>, now)

\* lines 359-373: join, _save_translation, mark Completed; an OSError of the
\* save lands in the except branch
Persist(task, jb, h, save, now) ==
    LET full_translation == JoinTranslation(jb.translated_chunks) IN
    IF save = "ok"
    THEN [task |-> CompleteTask(task, now),
          job |-> [jb EXCEPT !.pc = "done"],
          hist |-> [h EXCEPT !.status_log = Append(@, "completed"),
                             !.saves = Append(@, full_translation)],
          write |-> TRUE, text |-> full_translation]
    ELSE IF save = "write_error"
    THEN LET f == FailTask(task, h, <<"os_error", "write">>, now) IN
         [task |-> f.task, job |-> [jb EXCEPT !.pc = "done"],
          hist |-> [f.hist EXCEPT !.saves = Append(@, <<>>)],
          write |-> TRUE, text |-> <<>>]
    ELSE Failed(task, jb, h, <<"os_error", "open">>, now)

\* mutant: the loop starts at the second chunk
BeginChunk_SkipFirst(task, jb, h, idx, save, client, now) ==
    LET at == IF idx = 0 /\ Len(jb.chunks) >= 2 THEN 1 ELSE idx IN
    IF at >= Len(jb.chunks)
    THEN Persist(task, jb, h, save, now)
    ELSE IF ~client
    THEN Failed(task, jb, h, <<"client_not_initialized">>, now)
    ELSE NoWrite(task,
                 [jb EXCEPT !.pc = "request", !.i = at, !.retry_count = 0],
                 [h EXCEPT !.calls = Append(@, at + 1)])

\* the head of the for loop at chunk index idx (from 0): call translate()
\* up to its first POST, or leave the loop and persist
BeginChunk(task, jb, h, idx, save, client, now) ==
    IF idx >= Len(jb.chunks)
    THEN Persist(task, jb, h, save, now)
    ELSE IF ~client
    THEN Failed(task, jb, h, <<"client_not_initialized">>, now)
    ELSE NoWrite(task,
                 [jb EXCEPT !.pc = "request", !.i = idx, !.retry_count = 0],
                 [h EXCEPT !.calls = Append(@, idx + 1)])

\* _process_chapter_translation from its start to its first suspension
StartJob(task, jb, h, save, client, now) ==
    LET running == MarkInProgress(task)
        h1      == [h EXCEPT !.status_log = Append(@, "in_progress"),
                             !.fetches = @ + 1]
        fetched == get_chapter_content(task.book_id, task.chapter_id)
    IN  IF ~fetched.ok
        THEN Failed(running, jb, h1, fetched.value, now)
        ELSE LET chunks == split_text_into_chunks(
                               clean_html_content(fetched.value), chunk_size)
             IN  BeginChunk(running, [jb EXCEPT !.chunks = chunks],
                            [h1 EXCEPT !.results =
                                [k \in 1..Len(chunks) |-> NoneText]],
                            0, save, client, now)

\* the job resumes with the outcome o of its POST
HandleOutcome(task, jb, h, o, now) ==
    LET a == Attempt(jb.retry_count, o) IN
    IF a.kind = "retry"
    THEN NoWrite(task,
                 [jb EXCEPT !.pc = "retry_sleep",
                            !.retry_count = a.retry_count], h)
    ELSE IF a.kind = "raise"
    THEN Failed(task, jb, [h EXCEPT !.call_error = a.value],
                TranslateError(a.value), now)
    ELSE NoWrite([task EXCEPT !.progress =
                      ChunkProgress(jb.i, Len(jb.chunks))],
                 [jb EXCEPT !.pc = "pacing", !.retry_count = 0,
                            !.translated_chunks = AppendChunk(@, a.value)],
                 [h EXCEPT !.results[jb.i + 1] = a.value])

\* ------------------------------------------- one translate() call alone
\* texts POST /translate is called with
CallTexts == {<<"a">>, <<"a", "b">>}

\* log: the outcome classes of the attempts made, in order
\* result: "none" while running, then "return" or "raise"; value is the
\* text returned or the message raised by _translate_with_siliconflow
IdleCall ==
    [pc |-> "none", text |-> <<>>, retry_count |-> 0, log |-> <<>>,
     result |-> "none", value |-> <<>>]

\* the call resumes with the outcome o of its POST; what the caller
\* raises goes through the except clause of translate()
CallOutcome(c, o) ==
    LET a   == Attempt(c.retry_count, o)
        log == Append(c.log, OutcomeClass(o))
    IN  IF a.kind = "retry"
        THEN [c EXCEPT !.pc = "retry_sleep", !.retry_count = a.retry_count,
                       !.log = log]
        ELSE [c EXCEPT !.pc = "done", !.retry_count = a.retry_count,
                       !.log = log, !.result = a.kind,
                       !.value = IF a.kind = "raise"
                                 THEN TranslateError(a.value) ELSE a.value]

\* characters of the translations the provider returns in the calls that
\* are checked for digits: a digit, a dot, a translated letter, a space
NumberAlphabet == {"3", ".", "T", " "}

\* choices[0].message.content of those calls
NumberTexts == UNION {[1..n -> NumberAlphabet] : n \in 1..MaxTextLen}

\* a 200 response that carries content
OkResponse(content) ==
    [kind |-> "response", status |-> 200, shape |-> "ok",
     content |-> content, timeout_text |-> FALSE]

\* -------------------------------------- one Segmenter call alone
\* characters of the texts the Segmenter is called with: a letter, a
\* sentence terminator, a space and a newline
SegAlphabet == {"a", ".", " ", "\n"}

\* the texts the Segmenter is called with
SegTexts == UNION {[1..n -> SegAlphabet] : n \in 0..MaxTextLen}

\* the maximum lengths the Segmenter is called with
SegSizes == 1..MaxSize

\* pc: "none", then "input" once the arguments are bound, then "done"
IdleSeg == [pc |-> "none", text |-> <<>>, size |-> 1, chunks |-> <<>>]

\* ------------------------------------------- cleanup of the registry
\* calls: cleanup calls made so far, modulo 2; max_age and count: the
\* argument and the return value of the last one
IdleCleanup == [calls |-> 0, max_age |-> 0, count |-> 0]

\* max_age_hours values POST /tasks/cleanup carries
MaxAges == 0..MaxAgeHours

\* mutant: the age is taken from the creation time, whatever the status
IsExpired_AnyStatus(task, now, max_age) == now - task.created_at >= max_age

\* the task is Completed or Failed and its completion time is max_age
\* hours old or older
IsExpired(task, now, max_age) ==
    /\ task.status \in {"completed", "failed"}
    /\ task.completed_at # NoTime
    /\ now - task.completed_at >= max_age

\* ------------------------------------------------- chapter audio job
\* translation_id values POST /generate/chapter carries
TranslationIds == {"", "tid"}

\* duration of one synthesized segment, in units of 500 ms
SegmentDurations == {2}

\* AudioSegment.silent(duration=500), in units of 500 ms
SegmentSilence == 1

\* file path of the merged chapter audio
audio_path(book_id, chapter_id) ==
    <<book_id, StrReplace(safe_chapter_id(chapter_id), ":", "_")>>

AudioPaths == {audio_path(r[1], r[2]) : r \in Requests}

NewAudioTask(book_id, chapter_id, translation_id, now) ==
    [book_id |-> book_id, chapter_id |-> chapter_id,
     translation_id |-> translation_id, status |-> "pending",
     audio_url |-> NoneText, duration |-> NoTime, progress |-> <<0, 1>>,
     created_at |-> now, completed_at |-> NoTime,
     error_message |-> NoneText]

\* status_log: the values assigned to task.status, in order
\* reply:      what the caller of generate_chapter_audio was given
\* protocol:   the requests of the current text_to_speech call and their
\*             answers, in order
IdleAudioJob ==
    [pc |-> "none", segments |-> <<>>, i |-> 0, audio_segments |-> <<>>,
     polls |-> 0, status_log |-> <<>>, reply |-> NoneText,
     protocol |-> <<>>]

\* the job with the events appended to the record of its protocol
Logged(jb, events) == [jb EXCEPT !.protocol = @ \o events]

\* mutant: no share of the progress is reserved for the merge
SegmentProgress_NoReserve(i, total_segments) == <<i + 1, total_segments>>

\* mutant: the progress counts the segments before the current one
SegmentProgress_Lagging(i, total_segments) == <<8 * i, 10 * total_segments>>

\* (i + 1) / len(segments) * 0.8 as a fraction
SegmentProgress(i, total_segments) == <<8 * (i + 1), 10 * total_segments>>

\* the except branch of _process_chapter_audio_generation
FailAudioTask(task, msg) ==
    [task EXCEPT !.status = "failed", !.error_message = msg]

\* a step result of an audio job: export says whether the merged file is
\* written (with duration merged), files is the job's segment files left
AudioStep(task, jb, files, export, merged) ==
    [task |-> task, job |-> jb, files |-> files, export |-> export,
     merged |-> merged]

AudioFailed(task, jb, files, msg) ==
    AudioStep(FailAudioTask(task, msg),
              [jb EXCEPT !.pc = "done",
                         !.status_log = Append(@, "failed")],
              files, FALSE, 0)

\* text_to_speech wraps whatever the synthesis raises
TtsError(msg) == <<"tts_failed">> \o msg

\* the head of the for loop at segment index idx (from 0): text_to_speech
\* up to its POST /tts, or leave the loop and start the merge
BeginSegment(task, jb, files, idx) ==
    IF idx >= Len(jb.segments)
    THEN AudioStep(task, [jb EXCEPT !.pc = "merge"], files, FALSE, 0)
    ELSE AudioStep(task, [jb EXCEPT !.pc = "submit", !.i = idx, !.polls = 0,
                                    !.protocol = <<"POST /tts">>],
                   files, FALSE, 0)

\* _process_chapter_audio_generation from its start to its first suspension
StartAudioJob(task, jb, files, translation_content) ==
    LET running == MarkInProgress(task)
        jb1     == [jb EXCEPT !.status_log = Append(@, "in_progress")]
    IN  IF translation_content = NoneText \/ translation_content = <<>>
        THEN AudioFailed(running, jb1, files,
                         <<"translation_not_found">> \o task.chapter_id)
        ELSE IF Strip(translation_content) = <<>>
        THEN AudioFailed(running, jb1, files,
                         <<"translation_empty">> \o task.chapter_id)
        ELSE BeginSegment(running,
                 [jb1 EXCEPT !.segments =
                      split_text_for_tts(translation_content, max_length)],
                 files, 0)

\* sum of the durations ds
RECURSIVE SumSeq(_)
SumSeq(ds) == IF ds = <<>> THEN 0 ELSE Head(ds) + SumSeq(Tail(ds))

\* a stretch of a merged audio: [silent, d], d in units of 500 ms
Part(silent, d) == [silent |-> silent, d |-> d]

\* mutant: the silence is appended after every item, the last included
RECURSIVE MergeLoop_TrailingSilence(_, _, _)
MergeLoop_TrailingSilence(rest, merged_audio, silence) ==
    IF rest = <<>> THEN merged_audio \o <<Part(TRUE, silence)>>
    ELSE MergeLoop_TrailingSilence(
             Tail(rest),
             merged_audio \o <<Part(TRUE, silence), Part(FALSE, Head(rest))>>,
             silence)

\* for x in paths[1:]: merged_audio = merged_audio + silence + x
RECURSIVE MergeLoop(_, _, _)
MergeLoop(rest, merged_audio, silence) ==
    IF rest = <<>> THEN merged_audio
    ELSE MergeLoop(Tail(rest),
                   merged_audio
                       \o <<Part(TRUE, silence), Part(FALSE, Head(rest))>>,
                   silence)

\* _merge of both services for the item durations ds (not empty): the
\* first item, then silence and item for each further one
MergeTimeline(ds, silence) ==
    MergeLoop(Tail(ds), <<Part(FALSE, Head(ds))>>, silence)

\* len(audio) of a merged audio
RECURSIVE TimelineDuration(_)
TimelineDuration(timeline) ==
    IF timeline = <<>> THEN 0
    ELSE Head(timeline).d + TimelineDuration(Tail(timeline))

\* len(merged_audio) of _merge_audio_segments for segment durations ds
MergedDuration(ds) == TimelineDuration(MergeTimeline(ds, SegmentSilence))

\* the segment file is downloaded: duration d; next segment or merge
SegmentDone(task, jb, files, d) ==
    BeginSegment([task EXCEPT !.progress =
                      SegmentProgress(jb.i, Len(jb.segments))],
                 [Logged(jb, <<"200">>) EXCEPT
                      !.audio_segments = Append(@, d)],
                 files \cup {jb.i + 1}, jb.i + 1)

\* lines 272-290 once the executor has merged: remove the segment files,
\* then mark Completed; removed is how many files os.remove got rid of
\* before it raised (all of them if it did not raise)
AfterMerge(task, jb, files, removed, now) ==
    LET merged == MergedDuration(jb.audio_segments)
        left   == {k \in files : k > removed}
    IN  IF left # {}
        THEN LET f == AudioFailed(task, jb, left, <<"os_error", "remove">>)
             IN  [f EXCEPT !.export = TRUE, !.merged = merged]
        ELSE AudioStep([task EXCEPT !.status = "completed",
                                    !.progress = CompletedProgress,
                                    !.audio_url = <<"/storage/audio/">>
                                        \o audio_path(task.book_id,
                                                      task.chapter_id)[2],
                                    !.duration = merged,
                                    !.completed_at = now],
                       [jb EXCEPT !.pc = "done",
                                  !.status_log = Append(@, "completed")],
                       left, TRUE, merged)

\* ------------------------------------------------- output paths
\* longest chapter id of the path computations
MaxIdLen == 2

\* characters of the chapter ids: a letter, the characters the services
\* replace, and the replacement
IdAlphabet == {"a", "/", "\\", ":", "_"}

\* (book_id, chapter_id) pairs whose output paths are computed
PathPairs ==
    {"b1", "bX"} \X UNION {[1..n -> IdAlphabet] : n \in 1..MaxIdLen}

\* no path computed yet
IdleLocated ==
    [pc |-> "none", a |-> <<"", <<>>>>, b |-> <<"", <<>>>>,
     translation |-> <<>>, audio |-> <<>>, book_audio |-> <<>>]

\* no generate_chapter_audio call has raised
NoRejection == [book_id |-> "", chapter_id |-> <<>>, error |-> NoneText]

\* ---------------------------------------------- the speech service
\* most tasks POST /tts creates
MaxSpeechTasks == 2

SpeechIds == 1..MaxSpeechTasks

\* "/audio/{task_id}.wav"
audio_url(task_id) == <<"audio", task_id>>

\* the record create_tts_task stores in active_tasks
NewSpeechTask ==
    [status |-> "pending", progress |-> <<0, 1>>, audio_url |-> NoneText,
     error_message |-> NoneText]

\* no answer of GET /task/{id} yet
NoReply == [status |-> "none", progress |-> <<0, 1>>, audio_url |-> NoneText,
            error_message |-> NoneText]

\* tasks: active_tasks of the service; thread: where the thread that runs
\* synthesize_audio for the task is; files: the wav files written;
\* replies: the last TaskStatus returned for each task; client: where the
\* _synthesize_with_f5tts_service call that created the task is
IdleSpeech ==
    [tasks |-> <<>>,
     thread |-> [id \in SpeechIds |-> "none"],
     files |-> {},
     replies |-> [id \in SpeechIds |-> NoReply],
     client |-> [id \in SpeechIds |-> "none"]]

\* ------------------------------------------------- book-level merge
\* most chapter ids one merge request carries
MaxChapters == 3

\* AudioSegment.silent(duration=2000), in units of 500 ms
BookSilence == 4

\* content of a chapter audio file that AudioSegment.from_mp3 cannot decode
Corrupt == -2

\* durations of the chapter audio files found on disk (8 s, 10 s, 12 s)
ChapterDurations == {16, 20, 24}

\* what a chapter audio path can hold when a merge is requested
BookFileStates == {NoTime, Corrupt} \cup ChapterDurations

\* chapter ids a merge request names
BookChapterIds == {<<"c", "1">>, <<"c", "2">>, <<"z">>}

\* chapter id lists of the merge requests
ChapterIdLists == UNION {[1..n -> BookChapterIds] : n \in 0..MaxChapters}

\* os.path.exists of an audio path
FileExists(files, path) == path \in DOMAIN files /\ files[path] # NoTime

\* TTSService._get_audio_duration: 0.0 when the file cannot be decoded
get_audio_duration(content) == IF content = Corrupt THEN 0 ELSE content

\* f"{book_id}_{chapter_id}.mp3" as merge_book_audio builds it
book_audio_path(book_id, chapter_id) == <<book_id, chapter_id>>

\* the metadata file is absent
NoMetadata == [book_id |-> "", chapter_ids |-> <<>>, total_duration |-> NoTime,
               merged_filename |-> NoneText, chapter_count |-> 0]

\* pc, the arguments and locals of merge_book_audio, the complete file
\* (its timeline, empty when absent), the metadata file, and what the
\* call returned or raised
IdleBook ==
    [pc |-> "none", book_id |-> "", chapter_ids |-> <<>>,
     audio_files |-> <<>>, total_duration |-> 0, merged |-> <<>>,
     metadata |-> NoMetadata, ok |-> FALSE, result |-> NoneText]

\* except Exception as e: raise Exception(f"合并音频失败: {str(e)}")
MergeBookError(msg) == <<"merge_book_failed">> \o msg

\* mutant: a chapter without audio is skipped
RECURSIVE CollectLoop_SkipMissing(_, _, _, _, _)
CollectLoop_SkipMissing(files, book_id, chapter_ids, paths, total) ==
    IF chapter_ids = <<>>
    THEN [ok |-> TRUE, paths |-> paths, total |-> total, msg |-> <<>>]
    ELSE LET chapter_id == Head(chapter_ids)
             info_path  == audio_path(book_id, chapter_id)
             path       == book_audio_path(book_id, chapter_id)
         IN  IF ~FileExists(files, info_path) \/ ~FileExists(files, path)
             THEN CollectLoop_SkipMissing(files, book_id, Tail(chapter_ids),
                                          paths, total)
             ELSE CollectLoop_SkipMissing(
                      files, book_id, Tail(chapter_ids), Append(paths, path),
                      total + get_audio_duration(files[info_path]))

\* the for loop of merge_book_audio: the paths collected and the sum of
\* the durations, or the message of the exception raised
RECURSIVE CollectLoop(_, _, _, _, _)
CollectLoop(files, book_id, chapter_ids, paths, total) ==
    IF chapter_ids = <<>>
    THEN [ok |-> TRUE, paths |-> paths, total |-> total, msg |-> <<>>]
    ELSE LET chapter_id == Head(chapter_ids)
             info_path  == audio_path(book_id, chapter_id)
             path       == book_audio_path(book_id, chapter_id)
         IN  IF ~FileExists(files, info_path)
             THEN [ok |-> FALSE, paths |-> paths, total |-> total,
                   msg |-> <<"chapter_audio_missing">> \o chapter_id]
             ELSE IF ~FileExists(files, path)
             THEN [ok |-> FALSE, paths |-> paths, total |-> total,
                   msg |-> <<"audio_file_missing", book_id>> \o chapter_id]
             ELSE CollectLoop(files, book_id, Tail(chapter_ids),
                              Append(paths, path),
                              total + get_audio_duration(files[info_path]))

vars == <<clock, siliconflow_client, active_tasks, job, translations, writer,
          hist, call, audio_tasks, audio_job, audio_files, segment_files,
          seg, cleaned, book, located, speech, rejected>>

\* the variables of the operations that are run alone
alone_vars ==
    <<seg, cleaned, book, located, speech, rejected>>

\* the variables of the audio service
audio_vars == <<audio_tasks, audio_job, audio_files, segment_files>>

\* the variables of the translation jobs
translation_vars == <<active_tasks, job, translations, writer, hist>>

\* install the result r of a step of job t
Apply(t, r) ==
    LET path == translation_path(r.task.book_id, r.task.chapter_id) IN
    /\ active_tasks' = [active_tasks EXCEPT ![t] = r.task]
    /\ job' = [job EXCEPT ![t] = r.job]
    /\ hist' = [hist EXCEPT ![t] = r.hist]
    /\ translations' = IF r.write
                       THEN [translations EXCEPT ![path] = r.text]
                       ELSE translations
    /\ writer' = IF r.write THEN [writer EXCEPT ![path] = t] ELSE writer

Init ==
    /\ clock = 0
    /\ siliconflow_client \in BOOLEAN
    /\ active_tasks = <<>>
    /\ job = [t \in TaskIds |-> IdleJob]
    /\ translations = [p \in TranslationPaths |-> NoneText]
    /\ writer = [p \in TranslationPaths |-> 0]
    /\ hist = [t \in TaskIds |-> EmptyHist]
    /\ call = IdleCall
    /\ audio_tasks = <<>>
    /\ audio_job = [t \in TaskIds |-> IdleAudioJob]
    /\ audio_files = [p \in AudioPaths |-> NoTime]
    /\ segment_files = [t \in TaskIds |-> {}]
    /\ seg = IdleSeg
    /\ cleaned = IdleCleanup
    /\ book = IdleBook
    /\ located = IdleLocated
    /\ speech = IdleSpeech
    /\ rejected = NoRejection

\* uuid4: an id no task has yet
FreshId(t) ==
    /\ job[t].pc = "none" /\ audio_job[t].pc = "none"
    /\ \A u \in 1..(t - 1) : job[u].pc # "none" \/ audio_job[u].pc # "none"

\* TranslationService.translate_chapter: register a Pending task under a
\* fresh id and schedule the job
translate_chapter(book_id, chapter_id) ==
    \E t \in TaskIds :
        /\ FreshId(t)
        /\ active_tasks' =
               [u \in DOMAIN active_tasks \cup {t} |->
                   IF u = t
                   THEN NewTranslationTask(book_id, chapter_id, clock)
                   ELSE active_tasks[u]]
        /\ job' = [job EXCEPT ![t].pc = "scheduled"]
        /\ hist' = [hist EXCEPT ![t].status_log = <<"pending">>,
                                ![t].reply = TaskIdReply]
        /\ UNCHANGED <<alone_vars, clock, siliconflow_client, translations, writer, call,
                       audio_vars>>

\* the event loop first runs the scheduled job
ProcessStart(t) ==
    /\ job[t].pc = "scheduled"
    /\ t \in DOMAIN active_tasks
    /\ \E save \in SaveOutcomes :
           Apply(t, StartJob(active_tasks[t], job[t], hist[t], save,
                             siliconflow_client, clock))
    /\ UNCHANGED <<alone_vars, clock, siliconflow_client, call, audio_vars>>

\* the POST of job t completes
Response(t) ==
    /\ job[t].pc = "request"
    /\ \E o \in Outcomes(job[t].chunks[job[t].i + 1]) :
           Apply(t, HandleOutcome(active_tasks[t], job[t], hist[t], o, clock))
    /\ UNCHANGED <<alone_vars, clock, siliconflow_client, call, audio_vars>>

\* the asyncio.sleep before a retry ends: the loop condition holds and the
\* next POST goes out
RetryWake(t) ==
    /\ job[t].pc = "retry_sleep"
    /\ job[t].retry_count < max_retries
    /\ job' = [job EXCEPT ![t].pc = "request"]
    /\ UNCHANGED <<alone_vars, clock, siliconflow_client, active_tasks, translations,
                   writer, hist, call, audio_vars>>

\* the pacing sleep after a chunk ends: next chunk, or persist and complete
PacingWake(t) ==
    /\ job[t].pc = "pacing"
    /\ \E save \in SaveOutcomes :
           Apply(t, BeginChunk(active_tasks[t], job[t], hist[t],
                               job[t].i + 1, save, siliconflow_client, clock))
    /\ UNCHANGED <<alone_vars, clock, siliconflow_client, call, audio_vars>>

\* POST /translate: translate(text) runs up to its first POST
translate(text) ==
    /\ call.pc = "none"
    /\ call' = IF siliconflow_client
               THEN [IdleCall EXCEPT !.pc = "request", !.text = text]
               ELSE [IdleCall EXCEPT !.pc = "done", !.text = text,
                                     !.result = "raise",
                                     !.value = <<"client_not_initialized">>]
    /\ UNCHANGED <<alone_vars, clock, siliconflow_client, translation_vars, audio_vars>>

\* the POST of the call completes
CallResponse ==
    /\ call.pc = "request"
    /\ \E o \in Outcomes(call.text) : call' = CallOutcome(call, o)
    /\ UNCHANGED <<alone_vars, clock, siliconflow_client, translation_vars, audio_vars>>

\* the POST of the call completes with a translation out of NumberTexts
NumberedResponse ==
    /\ call.pc = "request"
    /\ \E content \in NumberTexts :
           call' = CallOutcome(call, OkResponse(content))
    /\ UNCHANGED <<alone_vars, clock, siliconflow_client, translation_vars, audio_vars>>

\* most digits of an integer literal
MaxDigits == 4

LiteralDigits == {"0", "1", "2", "5"}

\* digit strings of 1..n digits
DigitStrings(n) == UNION {[1..k -> LiteralDigits] : k \in 1..n}

\* numeric literals of a chunk: integers, decimals and version numbers
NumberLiterals ==
    DigitStrings(MaxDigits)
    \cup {a \o <<".">> \o b : a \in DigitStrings(2), b \in DigitStrings(2)}
    \cup {a \o <<".">> \o b \o <<".">> \o c :
              a \in DigitStrings(1), b \in DigitStrings(2),
              c \in DigitStrings(1)}

\* the POST of the call completes with a translation that is the numeric
\* literal the call was made with, which the provider left as it was
LiteralResponse ==
    /\ call.pc = "request"
    /\ call' = CallOutcome(call, OkResponse(call.text))
    /\ UNCHANGED <<alone_vars, clock, siliconflow_client, translation_vars, audio_vars>>

\* the asyncio.sleep before a retry of the call ends
CallRetryWake ==
    /\ call.pc = "retry_sleep"
    /\ call.retry_count < max_retries
    /\ call' = [call EXCEPT !.pc = "request"]
    /\ UNCHANGED <<alone_vars, clock, siliconflow_client, translation_vars, audio_vars>>

\* install the result r of a step of audio job t
ApplyAudio(t, r) ==
    LET path == audio_path(r.task.book_id, r.task.chapter_id) IN
    /\ audio_tasks' = [audio_tasks EXCEPT ![t] = r.task]
    /\ audio_job' = [audio_job EXCEPT ![t] = r.job]
    /\ segment_files' = [segment_files EXCEPT ![t] = r.files]
    /\ audio_files' = IF r.export
                      THEN [audio_files EXCEPT ![path] = r.merged]
                      ELSE audio_files
    /\ UNCHANGED <<alone_vars, clock, siliconflow_client, translation_vars, call>>

\* get_translation_result(book_id, chapter_id)
get_translation_result(book_id, chapter_id) ==
    translations[translation_path(book_id, chapter_id)]

\* TranslationService.get_translation_status: what a status reader is
\* given for a registered task
get_translation_status(t) ==
    [task_id |-> t,
     status |-> active_tasks[t].status,
     progress |-> active_tasks[t].progress,
     created_at |-> active_tasks[t].created_at,
     completed_at |-> active_tasks[t].completed_at,
     error_message |-> active_tasks[t].error_message]

\* TTSService.get_audio_status
get_audio_status(t) ==
    [task_id |-> t,
     status |-> audio_tasks[t].status,
     progress |-> audio_tasks[t].progress,
     audio_url |-> audio_tasks[t].audio_url,
     duration |-> audio_tasks[t].duration,
     created_at |-> audio_tasks[t].created_at,
     completed_at |-> audio_tasks[t].completed_at,
     error_message |-> audio_tasks[t].error_message]

\* mutant: an empty translation file counts as a translation
HasTranslation_EmptyCounts(translation_content) ==
    translation_content # NoneText

\* not (not translation_content): the file exists and is not empty
HasTranslation(translation_content) ==
    translation_content \notin {NoneText, <<>>}

\* TTSService.generate_chapter_audio: without a translation id the
\* translation must exist, else ValueError and no task; then register a
\* Pending task under a fresh id and schedule the job
generate_chapter_audio(book_id, chapter_id, translation_id) ==
    \E t \in TaskIds :
        /\ FreshId(t)
        /\ translation_id = "" =>
               HasTranslation(get_translation_result(book_id, chapter_id))
        /\ audio_tasks' =
               [u \in DOMAIN audio_tasks \cup {t} |->
                   IF u = t
                   THEN NewAudioTask(book_id, chapter_id, translation_id,
                                     clock)
                   ELSE audio_tasks[u]]
        /\ audio_job' = [audio_job EXCEPT ![t].pc = "scheduled",
                                          ![t].status_log = <<"pending">>,
                                          ![t].reply = TaskIdReply]
        /\ UNCHANGED <<alone_vars, clock, siliconflow_client, translation_vars, call,
                       audio_files, segment_files>>

\* TTSService.generate_chapter_audio without a translation id when the
\* chapter has no translation: the ValueError of lines 207-211 reaches the
\* caller before any task is created
generate_chapter_audio_raises(book_id, chapter_id) ==
    /\ ~HasTranslation(get_translation_result(book_id, chapter_id))
    /\ rejected' = [book_id |-> book_id, chapter_id |-> chapter_id,
                    error |-> <<"value_error", "get_translation_failed">>]
    /\ UNCHANGED <<seg, cleaned, book, located, speech, clock,
                   siliconflow_client, translation_vars, call, audio_vars>>

\* the event loop first runs the scheduled audio job
AudioStart(t) ==
    /\ audio_job[t].pc = "scheduled"
    /\ ApplyAudio(t, StartAudioJob(audio_tasks[t], audio_job[t],
                      segment_files[t],
                      get_translation_result(audio_tasks[t].book_id,
                                             audio_tasks[t].chapter_id)))

\* POST /tts answers: 200 with a task id, or anything else
SubmitResponse(t) ==
    /\ audio_job[t].pc = "submit"
    /\ \E ok \in BOOLEAN :
           ApplyAudio(t,
               IF ok
               THEN AudioStep(audio_tasks[t],
                              [Logged(audio_job[t], <<"200", "GET /task">>)
                                   EXCEPT !.pc = "poll"],
                              segment_files[t], FALSE, 0)
               ELSE AudioFailed(audio_tasks[t],
                                Logged(audio_job[t], <<"http_error">>),
                                segment_files[t],
                                TtsError(<<"create_task_failed">>)))

\* mutant: the audio is downloaded whatever status the poll reports
AfterPoll_AlwaysDownload(task, jb, files, st) ==
    IF st = "http_error"
    THEN AudioFailed(task, Logged(jb, <<st>>), files,
                     TtsError(<<"get_status_failed">>))
    ELSE AudioStep(task,
                   [Logged(jb, <<st, "GET /audio">>) EXCEPT !.pc = "download"],
                   files, FALSE, 0)

\* lines 161-185: the job resumes with the answer st of GET /task/{id}
AfterPoll(task, jb, files, st) ==
    IF st = "http_error"
    THEN AudioFailed(task, Logged(jb, <<st>>), files,
                     TtsError(<<"get_status_failed">>))
    ELSE IF st = "failed"
    THEN AudioFailed(task, Logged(jb, <<st>>), files,
                     TtsError(<<"synthesis_failed">>))
    ELSE IF st = "completed"
    THEN AudioStep(task,
                   [Logged(jb, <<st, "GET /audio">>) EXCEPT !.pc = "download"],
                   files, FALSE, 0)
    ELSE AudioStep(task,
                   [Logged(jb, <<st>>) EXCEPT !.pc = "poll_sleep",
                                              !.polls = @ + 1],
                   files, FALSE, 0)

\* GET /task/{id} answers
PollResponse(t) ==
    /\ audio_job[t].pc = "poll"
    /\ \E st \in {"http_error", "completed", "failed", "processing"} :
           /\ st = "processing" => audio_job[t].polls < MaxPolls
           /\ ApplyAudio(t, AfterPoll(audio_tasks[t], audio_job[t],
                                      segment_files[t], st))

\* the asyncio.sleep(2) of the poll loop ends
PollWake(t) ==
    /\ audio_job[t].pc = "poll_sleep"
    /\ ApplyAudio(t, AudioStep(audio_tasks[t],
                               [Logged(audio_job[t], <<"GET /task">>)
                                    EXCEPT !.pc = "poll"],
                               segment_files[t], FALSE, 0))

\* GET /audio/{file} answers: the bytes of a segment, or an error
DownloadResponse(t) ==
    /\ audio_job[t].pc = "download"
    /\ \/ \E d \in SegmentDurations :
              ApplyAudio(t, SegmentDone(audio_tasks[t], audio_job[t],
                                        segment_files[t], d))
       \/ ApplyAudio(t, AudioFailed(audio_tasks[t],
                                    Logged(audio_job[t], <<"http_error">>),
                                    segment_files[t],
                                    TtsError(<<"download_failed">>)))

\* the executor returns from _merge: the merged file is exported, or an
\* exception (no segment at all, an unreadable segment, a failed export)
MergeDone(t) ==
    /\ audio_job[t].pc = "merge"
    /\ \/ /\ audio_job[t].audio_segments # <<>>
          /\ \E removed \in 0..Len(audio_job[t].audio_segments) :
                 ApplyAudio(t, AfterMerge(audio_tasks[t], audio_job[t],
                                          segment_files[t], removed, clock))
       \/ ApplyAudio(t, AudioFailed(audio_tasks[t], audio_job[t],
                                    segment_files[t], <<"merge_failed">>))

Next ==
    \/ \E r \in Requests : translate_chapter(r[1], r[2])
    \/ \E t \in TaskIds : ProcessStart(t)
    \/ \E t \in TaskIds : Response(t)
    \/ \E t \in TaskIds : RetryWake(t)
    \/ \E t \in TaskIds : PacingWake(t)
    \/ \E r \in Requests, tid \in TranslationIds :
           generate_chapter_audio(r[1], r[2], tid)
    \/ \E t \in TaskIds : AudioStart(t)
    \/ \E t \in TaskIds : SubmitResponse(t)
    \/ \E t \in TaskIds : PollResponse(t)
    \/ \E t \in TaskIds : PollWake(t)
    \/ \E t \in TaskIds : DownloadResponse(t)
    \/ \E t \in TaskIds : MergeDone(t)

Spec == Init /\ [][Next]_vars

NextCall ==
    \/ \E text \in CallTexts : translate(text)
    \/ CallResponse
    \/ CallRetryWake

SpecCall == Init /\ [][NextCall]_vars

\* one translate() call to Chinese whose POST is answered with a
\* translation
NextNumbers ==
    \/ translate(<<"a">>)
    \/ NumberedResponse

SpecNumbers == Init /\ [][NextNumbers]_vars

NextLiterals ==
    \/ \E text \in NumberLiterals : translate(text)
    \/ LiteralResponse

SpecLiterals == Init /\ [][NextLiterals]_vars

\* chapter translation alone
NextLive ==
    \/ \E r \in Requests : translate_chapter(r[1], r[2])
    \/ \E t \in TaskIds : ProcessStart(t)
    \/ \E t \in TaskIds : Response(t)
    \/ \E t \in TaskIds : RetryWake(t)
    \/ \E t \in TaskIds : PacingWake(t)

\* the end of a retry sleep of some job
RetrySleepEnds == \E t \in TaskIds : RetryWake(t)

\* the event loop runs some job: its start, the end of a POST, the end of
\* a pacing sleep
JobRuns ==
    \E t \in TaskIds : ProcessStart(t) \/ Response(t) \/ PacingWake(t)

\* some job is scheduled, waits for a POST or is in a pacing sleep: the
\* states in which JobRuns is enabled
RunReady ==
    \E t \in TaskIds : job[t].pc \in {"scheduled", "request", "pacing"}

\* every sleep ends, the event loop runs a job that is ready, and every
\* POST ends (the client has a timeout). The second conjunct is weak
\* fairness of JobRuns with its enabling condition written out.
Fairness ==
    /\ WF_vars(RetrySleepEnds)
    /\ (<>[]RunReady => []<><<JobRuns>>_vars)

SpecLive == Init /\ [][NextLive]_vars /\ Fairness

\* chapter translation of the requests in ChapterRequests
NextChapter ==
    \/ \E r \in ChapterRequests : translate_chapter(r[1], r[2])
    \/ \E t \in TaskIds : ProcessStart(t)
    \/ \E t \in TaskIds : Response(t)
    \/ \E t \in TaskIds : RetryWake(t)
    \/ \E t \in TaskIds : PacingWake(t)

SpecChapter == Init /\ [][NextChapter]_vars

\* chapter translations, and requests for chapter audio with and without
\* a translation id
NextRequests ==
    \/ \E r \in Requests : translate_chapter(r[1], r[2])
    \/ \E t \in TaskIds : ProcessStart(t)
    \/ \E t \in TaskIds : Response(t)
    \/ \E t \in TaskIds : RetryWake(t)
    \/ \E t \in TaskIds : PacingWake(t)
    \/ \E r \in Requests, tid \in TranslationIds :
           generate_chapter_audio(r[1], r[2], tid)
    \/ \E r \in Requests : generate_chapter_audio_raises(r[1], r[2])

\* the state after construction with SILICONFLOW_API_KEY configured
InitWithKey == Init /\ siliconflow_client = TRUE

SpecRequests == InitWithKey /\ [][NextRequests]_vars

\* the translation the provider returns to job t: the chunk marked with
\* t letters, so that the outputs of two jobs differ
TaggedContent(t, chunk) == [k \in 1..t |-> "T"] \o chunk

\* the POST of job t completes with a translation of its own
TaggedResponse(t) ==
    /\ job[t].pc = "request"
    /\ Apply(t, HandleOutcome(
                    active_tasks[t], job[t], hist[t],
                    OkResponse(TaggedContent(t, job[t].chunks[job[t].i + 1])),
                    clock))
    /\ UNCHANGED <<alone_vars, clock, siliconflow_client, call, audio_vars>>

\* chapter translation jobs whose provider answers differ from job to job
NextRace ==
    \/ \E r \in Requests : translate_chapter(r[1], r[2])
    \/ \E t \in TaskIds : ProcessStart(t)
    \/ \E t \in TaskIds : TaggedResponse(t)
    \/ \E t \in TaskIds : PacingWake(t)

SpecRace == InitWithKey /\ [][NextRace]_vars

\* two jobs are given their (book_id, chapter_id)
InitPaths ==
    /\ clock = 0
    /\ siliconflow_client = TRUE
    /\ active_tasks = <<>>
    /\ job = [t \in TaskIds |-> IdleJob]
    /\ translations = [p \in TranslationPaths |-> NoneText]
    /\ writer = [p \in TranslationPaths |-> 0]
    /\ hist = [t \in TaskIds |-> EmptyHist]
    /\ call = IdleCall
    /\ audio_tasks = <<>>
    /\ audio_job = [t \in TaskIds |-> IdleAudioJob]
    /\ audio_files = [p \in AudioPaths |-> NoTime]
    /\ segment_files = [t \in TaskIds |-> {}]
    /\ seg = IdleSeg
    /\ cleaned = IdleCleanup
    /\ book = IdleBook
    /\ \E a \in PathPairs, b \in PathPairs :
           located = [IdleLocated EXCEPT !.pc = "input", !.a = a, !.b = b]
    /\ speech = IdleSpeech
    /\ rejected = NoRejection

\* _save_translation and _merge_audio_segments build the output paths of
\* the two jobs, and merge_book_audio the paths where it looks for the
\* chapter audio
LocateOutputs ==
    /\ located.pc = "input"
    /\ located' =
           [located EXCEPT
               !.pc = "done",
               !.translation = <<translation_path(located.a[1], located.a[2]),
                                 translation_path(located.b[1], located.b[2])>>,
               !.audio = <<audio_path(located.a[1], located.a[2]),
                           audio_path(located.b[1], located.b[2])>>,
               !.book_audio =
                   <<book_audio_path(located.a[1], located.a[2]),
                     book_audio_path(located.b[1], located.b[2])>>]
    /\ UNCHANGED <<seg, cleaned, book, speech, rejected, clock, siliconflow_client,
                   translation_vars, call, audio_vars>>

NextPaths == LocateOutputs

SpecPaths == InitPaths /\ [][NextPaths]_vars

\* ------------------------------------- the speech service, its threads
\* POST /tts: the task is recorded and synthesize_audio is handed to the
\* thread pool as a background task
create_tts_task ==
    /\ Len(speech.tasks) < MaxSpeechTasks
    /\ LET task_id == Len(speech.tasks) + 1 IN
       speech' = [speech EXCEPT !.tasks = Append(@, NewSpeechTask),
                                !.thread[task_id] = "line_87",
                                !.client[task_id] = "poll"]
    /\ UNCHANGED <<seg, cleaned, book, located, rejected, clock, siliconflow_client,
                   translation_vars, call, audio_vars>>

\* the thread of task_id runs up to and including its next store into
\* active_tasks[task_id], the one at the line it is at; the thread can be
\* preempted between two stores.
\* raised: makedirs (line 99) or infer (line 105) raises, and the store
\* made is the one of the except clause (line 120)
SynthesizeStep(task_id, raised) ==
    LET at == speech.thread[task_id]
        task == speech.tasks[task_id]
    IN  CASE at = "line_87" ->
                 [speech EXCEPT !.tasks[task_id].status = "processing",
                                !.thread[task_id] = "line_88"]
          [] at = "line_88" ->
                 [speech EXCEPT !.tasks[task_id].progress = <<1, 10>>,
                                !.thread[task_id] = "line_102"]
          [] at = "line_102" ->
                 IF raised
                 THEN [speech EXCEPT !.tasks[task_id].status = "failed",
                                     !.thread[task_id] = "line_121"]
                 ELSE [speech EXCEPT !.tasks[task_id].progress = <<3, 10>>,
                                     !.thread[task_id] = "line_115"]
          [] at = "line_115" ->
                 IF raised
                 THEN [speech EXCEPT !.tasks[task_id].status = "failed",
                                     !.thread[task_id] = "line_121"]
                 ELSE [speech EXCEPT !.tasks[task_id].status = "completed",
                                     !.files = @ \cup {task_id},
                                     !.thread[task_id] = "line_116"]
          [] at = "line_116" ->
                 [speech EXCEPT !.tasks[task_id].progress = <<1, 1>>,
                                !.thread[task_id] = "line_117"]
          [] at = "line_117" ->
                 [speech EXCEPT !.tasks[task_id].audio_url = audio_url(task_id),
                                !.thread[task_id] = "returned"]
          [] at = "line_121" ->
                 [speech EXCEPT !.tasks[task_id].error_message = <<"error">>,
                                !.thread[task_id] = "returned"]

\* one thread of the pool advances
synthesize_audio(task_id) ==
    /\ speech.thread[task_id] \notin {"none", "returned"}
    /\ \E raised \in BOOLEAN : speech' = SynthesizeStep(task_id, raised)
    /\ UNCHANGED <<seg, cleaned, book, located, rejected, clock, siliconflow_client,
                   translation_vars, call, audio_vars>>

\* GET /task/{id} on the event loop: the fields of the record as they
\* are at that moment
get_task_status(task_id) ==
    /\ task_id \in DOMAIN speech.tasks
    /\ speech' = [speech EXCEPT !.replies[task_id] = speech.tasks[task_id]]
    /\ UNCHANGED <<seg, cleaned, book, located, rejected, clock, siliconflow_client,
                   translation_vars, call, audio_vars>>

InitSpeech == Init /\ siliconflow_client = TRUE

NextSpeech ==
    \/ create_tts_task
    \/ \E task_id \in SpeechIds : synthesize_audio(task_id)
    \/ \E task_id \in SpeechIds : get_task_status(task_id)

SpecSpeech == InitSpeech /\ [][NextSpeech]_vars

\* mutant: a failed task is polled again like a running one
AfterStatus_IgnoreFailed(status_data) ==
    IF status_data.status = "completed"
    THEN (IF status_data.audio_url = NoneText THEN "raised" ELSE "download")
    ELSE "sleep"

\* lines 164-185 of _synthesize_with_f5tts_service: where the call goes
\* with the TaskStatus it was answered; None has no split, so a completed
\* answer without audio_url raises
AfterStatus(status_data) ==
    IF status_data.status = "completed"
    THEN (IF status_data.audio_url = NoneText THEN "raised" ELSE "download")
    ELSE IF status_data.status = "failed" THEN "raised"
    ELSE "sleep"

\* the call polls GET /task/{id} and acts on the answer
PollTask(task_id) ==
    /\ speech.client[task_id] = "poll"
    /\ speech' = [speech EXCEPT
                      !.replies[task_id] = speech.tasks[task_id],
                      !.client[task_id] = AfterStatus(speech.tasks[task_id])]
    /\ UNCHANGED <<seg, cleaned, book, located, rejected, clock, siliconflow_client,
                   translation_vars, call, audio_vars>>

\* the asyncio.sleep(2) of the call ends
PollSleepEnds(task_id) ==
    /\ speech.client[task_id] = "sleep"
    /\ speech' = [speech EXCEPT !.client[task_id] = "poll"]
    /\ UNCHANGED <<seg, cleaned, book, located, rejected, clock, siliconflow_client,
                   translation_vars, call, audio_vars>>

\* GET /audio/{file}: the bytes are written and the call returns, or the
\* answer is not 200 and it raises
DownloadAudio(task_id) ==
    /\ speech.client[task_id] = "download"
    /\ \E ok \in BOOLEAN :
           /\ ok => task_id \in speech.files
           /\ speech' = [speech EXCEPT !.client[task_id] =
                             IF ok THEN "returned" ELSE "raised"]
    /\ UNCHANGED <<seg, cleaned, book, located, rejected, clock, siliconflow_client,
                   translation_vars, call, audio_vars>>

\* the service with the calls that poll it
NextPoll ==
    \/ create_tts_task
    \/ \E task_id \in SpeechIds : synthesize_audio(task_id)
    \/ \E task_id \in SpeechIds : PollTask(task_id)
    \/ \E task_id \in SpeechIds : PollSleepEnds(task_id)
    \/ \E task_id \in SpeechIds : DownloadAudio(task_id)

SpecPoll == InitSpeech /\ [][NextPoll]_vars

\* chapter audio files are on disk when a book merge is requested
InitBook ==
    /\ clock = 0
    /\ siliconflow_client = TRUE
    /\ active_tasks = <<>>
    /\ job = [t \in TaskIds |-> IdleJob]
    /\ translations = [p \in TranslationPaths |-> NoneText]
    /\ writer = [p \in TranslationPaths |-> 0]
    /\ hist = [t \in TaskIds |-> EmptyHist]
    /\ call = IdleCall
    /\ audio_tasks = <<>>
    /\ audio_job = [t \in TaskIds |-> IdleAudioJob]
    /\ audio_files \in [AudioPaths -> BookFileStates]
    /\ segment_files = [t \in TaskIds |-> {}]
    /\ seg = IdleSeg
    /\ cleaned = IdleCleanup
    /\ book = IdleBook
    /\ located = IdleLocated
    /\ speech = IdleSpeech
    /\ rejected = NoRejection

\* AudioService.merge_book_audio up to the executor call: collect the
\* chapter files, or raise
merge_book_audio(book_id, chapter_ids) ==
    /\ book.pc = "none"
    /\ LET c == CollectLoop(audio_files, book_id, chapter_ids, <<>>, 0) IN
       book' = IF c.ok
               THEN [book EXCEPT !.pc = "merging", !.book_id = book_id,
                                 !.chapter_ids = chapter_ids,
                                 !.audio_files = c.paths,
                                 !.total_duration = c.total]
               ELSE [book EXCEPT !.pc = "done", !.book_id = book_id,
                                 !.chapter_ids = chapter_ids,
                                 !.audio_files = c.paths,
                                 !.total_duration = c.total,
                                 !.result = MergeBookError(c.msg)]
    /\ UNCHANGED <<seg, cleaned, located, speech, rejected, clock, siliconflow_client,
                   translation_vars, call, audio_vars>>

\* the executor returns from _merge (lines 64-93) and the metadata is
\* saved: nothing to merge, a file that cannot be decoded (the message is
\* the decoder's, which may or may not hold the file name), or the
\* export; then _save_book_metadata, whose open can raise
MergeBookDone ==
    /\ book.pc = "merging"
    /\ \E names \in BOOLEAN, saved \in BOOLEAN :
         LET durations == [k \in 1..Len(book.audio_files) |->
                              audio_files[book.audio_files[k]]]
             corrupt   == {k \in 1..Len(durations) : durations[k] = Corrupt}
             first     == CHOOSE k \in corrupt : \A m \in corrupt : k <= m
             exported  == [book EXCEPT !.pc = "done",
                               !.merged = MergeTimeline(durations,
                                                        BookSilence)]
         IN  book' =
               IF book.audio_files = <<>>
               THEN [book EXCEPT !.pc = "done",
                        !.result = MergeBookError(<<"no_audio_files">>)]
               ELSE IF corrupt # {}
               THEN [book EXCEPT !.pc = "done",
                        !.result = MergeBookError(
                            <<"decoding_failed">> \o
                            (IF names THEN book.audio_files[first][2]
                             ELSE <<>>))]
               ELSE IF ~saved
               THEN [exported EXCEPT
                        !.result = MergeBookError(<<"os_error", "open">>)]
               ELSE [exported EXCEPT
                        !.ok = TRUE,
                        !.result = <<book.book_id, "_complete.mp3">>,
                        !.metadata =
                            [book_id |-> book.book_id,
                             chapter_ids |-> book.chapter_ids,
                             total_duration |-> book.total_duration,
                             merged_filename |->
                                 <<book.book_id, "_complete.mp3">>,
                             chapter_count |-> Len(book.chapter_ids)]]
    /\ UNCHANGED <<seg, cleaned, located, speech, rejected, clock, siliconflow_client,
                   translation_vars, call, audio_vars>>

NextBook ==
    \/ \E ids \in ChapterIdLists : merge_book_audio("b1", ids)
    \/ MergeBookDone

SpecBook == InitBook /\ [][NextBook]_vars

\* a caller binds the arguments of _split_text_into_chunks
InitSeg ==
    /\ clock = 0
    /\ siliconflow_client \in BOOLEAN
    /\ active_tasks = <<>>
    /\ job = [t \in TaskIds |-> IdleJob]
    /\ translations = [p \in TranslationPaths |-> NoneText]
    /\ writer = [p \in TranslationPaths |-> 0]
    /\ hist = [t \in TaskIds |-> EmptyHist]
    /\ call = IdleCall
    /\ audio_tasks = <<>>
    /\ audio_job = [t \in TaskIds |-> IdleAudioJob]
    /\ audio_files = [p \in AudioPaths |-> NoTime]
    /\ segment_files = [t \in TaskIds |-> {}]
    /\ \E text \in SegTexts, size \in SegSizes :
           seg = [IdleSeg EXCEPT !.pc = "input", !.text = text,
                                 !.size = size]
    /\ cleaned = IdleCleanup
    /\ book = IdleBook
    /\ located = IdleLocated
    /\ speech = IdleSpeech
    /\ rejected = NoRejection

\* _split_text_into_chunks(text, chunk_size) runs and returns its chunks
SplitCall ==
    /\ seg.pc = "input"
    /\ seg' = [seg EXCEPT !.pc = "done",
                          !.chunks = split_text_into_chunks(seg.text,
                                                            seg.size)]
    /\ UNCHANGED <<cleaned, book, located, speech, rejected, clock, siliconflow_client, translation_vars,
                   call, audio_vars>>

NextSeg == SplitCall

\* an hour passes
Tick ==
    /\ clock < MaxClock
    /\ clock' = clock + 1
    /\ UNCHANGED <<alone_vars, siliconflow_client, translation_vars, call,
                   audio_vars>>

\* cleanup_completed_tasks(max_age_hours): drop the expired tasks from the
\* registry and return how many they were
cleanup_completed_tasks(max_age_hours) ==
    LET expired == {t \in DOMAIN active_tasks :
                       IsExpired(active_tasks[t], clock, max_age_hours)}
    IN  /\ active_tasks' = [t \in DOMAIN active_tasks \ expired |->
                               active_tasks[t]]
        /\ cleaned' = [calls |-> (cleaned.calls + 1) % 2,
                       max_age |-> max_age_hours,
                       count |-> Cardinality(expired)]
        /\ UNCHANGED <<seg, book, located, speech, rejected, clock, siliconflow_client, job, translations,
                       writer, hist, call, audio_vars>>

\* chapters requested while cleanup is exercised: one whose job is left
\* waiting for its first translation, one without text to translate
CleanupRequests == {<<"b1", <<"c", "1">>>>, <<"b1", <<"c", "2">>>>}

\* jobs are followed up to their first request to the provider
NextCleanup ==
    \/ \E r \in CleanupRequests : translate_chapter(r[1], r[2])
    \/ \E t \in TaskIds : ProcessStart(t)
    \/ Tick
    \/ \E max_age_hours \in MaxAges : cleanup_completed_tasks(max_age_hours)

SpecCleanup == Init /\ [][NextCleanup]_vars

SpecSeg == InitSeg /\ [][NextSeg]_vars

\* ---------------------------------------- the speech Segmenter, alone
\* characters of a translated text: a letter, the full stop "juhao" and a
\* blank
TtsAlphabet == {"a", "juhao", " "}

TtsTexts == UNION {[1..n -> TtsAlphabet] : n \in 0..MaxTextLen}

\* a caller binds the arguments of _split_text_for_tts
InitTts ==
    /\ clock = 0
    /\ siliconflow_client = TRUE
    /\ active_tasks = <<>>
    /\ job = [t \in TaskIds |-> IdleJob]
    /\ translations = [p \in TranslationPaths |-> NoneText]
    /\ writer = [p \in TranslationPaths |-> 0]
    /\ hist = [t \in TaskIds |-> EmptyHist]
    /\ call = IdleCall
    /\ audio_tasks = <<>>
    /\ audio_job = [t \in TaskIds |-> IdleAudioJob]
    /\ audio_files = [p \in AudioPaths |-> NoTime]
    /\ segment_files = [t \in TaskIds |-> {}]
    /\ \E text \in TtsTexts, maxlen \in 1..max_length :
           seg = [IdleSeg EXCEPT !.pc = "tts_input", !.text = text,
                                 !.size = maxlen]
    /\ cleaned = IdleCleanup
    /\ book = IdleBook
    /\ located = IdleLocated
    /\ speech = IdleSpeech
    /\ rejected = NoRejection

\* _split_text_for_tts(text, max_length) runs and returns its segments
TtsSplitCall ==
    /\ seg.pc = "tts_input"
    /\ seg' = [seg EXCEPT !.pc = "tts_done",
                          !.chunks = split_text_for_tts(seg.text, seg.size)]
    /\ UNCHANGED <<cleaned, book, located, speech, rejected, clock, siliconflow_client,
                   translation_vars, call, audio_vars>>

NextTts == TtsSplitCall

SpecTts == InitTts /\ [][NextTts]_vars

\* ------------------------------- the Segmenter on texts of paragraphs
\* largest number of paragraphs of a text
MaxParagraphs == 4

ParagraphPieces == {<<>>, <<"a">>, <<"a", "a">>}

ParagraphLists ==
    UNION {[1..n -> ParagraphPieces] : n \in 1..MaxParagraphs}

PackSizes == 1..(2 * MaxSize + 1)

\* a caller binds the arguments of _split_text_into_chunks to a text made
\* of short paragraphs
InitPack ==
    /\ clock = 0
    /\ siliconflow_client = TRUE
    /\ active_tasks = <<>>
    /\ job = [t \in TaskIds |-> IdleJob]
    /\ translations = [p \in TranslationPaths |-> NoneText]
    /\ writer = [p \in TranslationPaths |-> 0]
    /\ hist = [t \in TaskIds |-> EmptyHist]
    /\ call = IdleCall
    /\ audio_tasks = <<>>
    /\ audio_job = [t \in TaskIds |-> IdleAudioJob]
    /\ audio_files = [p \in AudioPaths |-> NoTime]
    /\ segment_files = [t \in TaskIds |-> {}]
    /\ \E paragraphs \in ParagraphLists, size \in PackSizes :
           seg = [IdleSeg EXCEPT !.pc = "input",
                                 !.text = StrJoin(paragraphs, <<"\n", "\n">>),
                                 !.size = size]
    /\ cleaned = IdleCleanup
    /\ book = IdleBook
    /\ located = IdleLocated
    /\ speech = IdleSpeech
    /\ rejected = NoRejection

SpecPack == InitPack /\ [][NextSeg]_vars

\* ------------------------------------------------------------ the claims
Last(q) == q[Len(q)]

IsPrefix(p, q) == Len(p) <= Len(q) /\ SubSeq(q, 1, Len(p)) = p

Terminal == {"completed", "failed"}

\* fractions <<numerator, denominator>>
FracLeq(p, q) == p[1] * q[2] <= q[1] * p[2]

IsOne(p) == p[1] = p[2]

LegalStatusLog(log) ==
    \/ IsPrefix(log, <<"pending", "in_progress", "completed">>)
    \/ IsPrefix(log, <<"pending", "in_progress", "failed">>)

\* the values assigned to the status of every task follow the lifecycle
\* and the record shows the value assigned last
LifecycleFollowed ==
    /\ \A t \in DOMAIN active_tasks :
           /\ LegalStatusLog(hist[t].status_log)
           /\ Last(hist[t].status_log) = active_tasks[t].status
    /\ \A t \in DOMAIN audio_tasks :
           /\ LegalStatusLog(audio_job[t].status_log)
           /\ Last(audio_job[t].status_log) = audio_tasks[t].status

\* a step leaves every Completed or Failed task record as it is
TerminalFrozen ==
    /\ \A t \in DOMAIN active_tasks :
           active_tasks[t].status \in Terminal =>
               /\ t \in DOMAIN active_tasks'
               /\ active_tasks'[t] = active_tasks[t]
    /\ \A t \in DOMAIN audio_tasks :
           audio_tasks[t].status \in Terminal =>
               /\ t \in DOMAIN audio_tasks'
               /\ audio_tasks'[t] = audio_tasks[t]

\* C1: the status of every translation task and every audio task is only
\* ever assigned along Pending -> InProgress -> Completed or
\* Pending -> InProgress -> Failed, and no step changes the record (status,
\* progress, completion timestamp, error description) of a task that is
\* Completed or Failed.
C1_Lifecycle == [](LifecycleFollowed) /\ [][TerminalFrozen]_vars

\* a translation task is Completed, an audio task is Failed, both frozen
C1_Witness ==
    /\ \E t \in DOMAIN active_tasks : active_tasks[t].status = "completed"
    /\ \E t \in DOMAIN audio_tasks :
           /\ audio_tasks[t].status = "failed"
           /\ Len(audio_job[t].audio_segments) = 1

\* a step never lowers the progress of a task
ProgressMonotone ==
    /\ \A t \in DOMAIN active_tasks :
           FracLeq(active_tasks[t].progress, active_tasks'[t].progress)
    /\ \A t \in DOMAIN audio_tasks :
           FracLeq(audio_tasks[t].progress, audio_tasks'[t].progress)

\* C2 as claimed: progress never decreases from one state to the next, and
\* progress is 1.0 only while the status is Completed.
C2_AsClaimed ==
    [][/\ ProgressMonotone
       /\ \A t \in DOMAIN active_tasks' :
              IsOne(active_tasks'[t].progress) =>
                  active_tasks'[t].status = "completed"
       /\ \A t \in DOMAIN audio_tasks' :
              IsOne(audio_tasks'[t].progress) =>
                  audio_tasks'[t].status = "completed"]_vars

\* the last chunk of translation job t has been translated
AllChunksTranslated(t) ==
    /\ job[t].chunks # <<>>
    /\ Len(job[t].translated_chunks) = Len(job[t].chunks)

\* C2 amended: progress never decreases from one state to the next; an
\* audio task shows progress 1.0 only when Completed; a translation task
\* shows progress 1.0 only when Completed or once its last chunk has been
\* translated (InProgress until the translation is saved, Failed if saving
\* fails).
C2_Progress ==
    [][/\ ProgressMonotone
       /\ \A t \in DOMAIN active_tasks' :
              IsOne(active_tasks'[t].progress) =>
                  \/ active_tasks'[t].status = "completed"
                  \/ AllChunksTranslated(t)'
       /\ \A t \in DOMAIN audio_tasks' :
              IsOne(audio_tasks'[t].progress) =>
                  audio_tasks'[t].status = "completed"]_vars

\* a two-chunk translation has Completed, and an audio task is InProgress
\* at 0.8 with all of its segments, two or more, synthesized
C2_Witness ==
    /\ \E t \in DOMAIN active_tasks :
           /\ active_tasks[t].status = "completed"
           /\ Len(job[t].chunks) = 2
    /\ \E t \in DOMAIN audio_tasks :
           /\ audio_tasks[t].status = "in_progress"
           /\ audio_job[t].pc = "merge"
           /\ Len(audio_job[t].segments) >= 2
           /\ audio_tasks[t].progress =
                  <<8 * Len(audio_job[t].segments),
                    10 * Len(audio_job[t].segments)>>

\* C3: when translate_chapter returns (the job is scheduled and has not
\* run), the task is in the registry with status Pending and progress 0,
\* and neither a chapter fetch nor a translation request has been made
\* for it.
C3_ReturnsBeforeWork ==
    \A t \in TaskIds :
        job[t].pc = "scheduled" =>
            /\ t \in DOMAIN active_tasks
            /\ active_tasks[t].status = "pending"
            /\ active_tasks[t].progress = <<0, 1>>
            /\ active_tasks[t].completed_at = NoTime
            /\ hist[t].fetches = 0
            /\ hist[t].calls = <<>>
            /\ hist[t].saves = <<>>

\* a job is scheduled while an earlier one is awaiting its provider
C3_Witness ==
    \E t, u \in TaskIds :
        /\ job[t].pc = "scheduled"
        /\ job[u].pc = "request"

\* C4: if the remote call for chunk k fails, no call is issued for a chunk
\* after k, the task ends Failed with an error description that carries
\* the message of the error raised by that call, and the job has written
\* nothing to the translation file.
C4_ChunkFailureAborts ==
    \A t \in DOMAIN active_tasks :
        hist[t].call_error # NoneText =>
            /\ job[t].pc = "done"
            /\ active_tasks[t].status = "failed"
            /\ EndsWith(active_tasks[t].error_message, hist[t].call_error)
            /\ \A k \in 1..Len(hist[t].calls) : hist[t].calls[k] = k
            /\ Last(hist[t].calls) = job[t].i + 1
            /\ hist[t].saves = <<>>
            /\ writer[translation_path(active_tasks[t].book_id,
                                       active_tasks[t].chapter_id)] # t

\* the call for the first of two chunks has failed
C4_Witness ==
    \E t \in DOMAIN active_tasks :
        /\ hist[t].call_error # NoneText
        /\ Len(job[t].chunks) = 2
        /\ job[t].i = 0

TaskPath(t) ==
    translation_path(active_tasks[t].book_id, active_tasks[t].chapter_id)

\* C5 as claimed: in every state where a translation task is Completed,
\* the translation file holds the full output of that job.
C5_AsClaimed ==
    \A t \in DOMAIN active_tasks :
        active_tasks[t].status = "completed" =>
            translations[TaskPath(t)] = JoinTranslation(job[t].translated_chunks)

\* C5 amended: a translation task is Completed only after its job saved
\* the joined translation: the job then wrote its full output exactly
\* once, and the file holds that output as long as no other job for the
\* same (bookId, chapterId) has written the file since; a job whose save
\* fails ends Failed, never Completed.
C5_CompletedAfterSave ==
    \A t \in DOMAIN active_tasks :
        /\ active_tasks[t].status = "completed" =>
               /\ Len(job[t].translated_chunks) = Len(job[t].chunks)
               /\ hist[t].saves = <<JoinTranslation(job[t].translated_chunks)>>
               /\ writer[TaskPath(t)] # 0
               /\ writer[TaskPath(t)] = t =>
                      translations[TaskPath(t)] = hist[t].saves[1]
        /\ active_tasks[t].error_message \in
               {<<"os_error", "open">>, <<"os_error", "write">>} =>
               active_tasks[t].status = "failed"

\* both outcomes: a Completed task whose file holds its output, and a task
\* that Failed because its save failed
C5_Witness ==
    /\ \E t \in DOMAIN active_tasks :
           /\ active_tasks[t].status = "completed"
           /\ Len(job[t].chunks) = 2
           /\ writer[TaskPath(t)] = t
    /\ \E t \in DOMAIN active_tasks :
           /\ active_tasks[t].status = "failed"
           /\ active_tasks[t].error_message = <<"os_error", "open">>

\* C6: the translation a Completed job persisted is translated[1] + sep +
\* ... + translated[n] with sep the paragraph separator and translated[k]
\* the text returned for source chunk k: every chunk once, in index order.
C6_ReassemblyInOrder ==
    \A t \in DOMAIN active_tasks :
        active_tasks[t].status = "completed" /\ writer[TaskPath(t)] = t =>
            /\ Len(hist[t].results) = Len(job[t].chunks)
            /\ \A k \in 1..Len(job[t].chunks) :
                   hist[t].results[k] \in
                       {TranslatedText(c) : c \in Contents(job[t].chunks[k])}
            /\ translations[TaskPath(t)] =
                   StrJoin(hist[t].results, <<"\n", "\n">>)

\* a two-chunk chapter has been persisted
C6_Witness ==
    \E t \in DOMAIN active_tasks :
        /\ active_tasks[t].status = "completed"
        /\ writer[TaskPath(t)] = t
        /\ Len(job[t].chunks) = 2
        /\ hist[t].results[1] # hist[t].results[2]

\* ------------------------------------- claims about one translate() call
CallFailed == call.pc = "done" /\ call.result = "raise" /\ call.log # <<>>

AllLogIn(set) == \A k \in 1..Len(call.log) : call.log[k] \in set

\* the message is the retries-exhausted one and names the attempts made
IsRetriesExhausted(msg) ==
    /\ Len(msg) >= 3
    /\ msg[1] = "translation_failed"
    /\ msg[2] \in {"network_request_failed_after_retries",
                   "max_retries_reached"}
    /\ msg[3] = MaxRetriesText

C8_FatalNotRetried ==
    \A k \in 1..Len(call.log) :
        call.log[k] \in {"4xx", "malformed"} =>
            /\ k = Len(call.log)
            /\ call.pc = "done"
            /\ call.result = "raise"

\* a 4xx on the first attempt has ended the call
C8_Witness == CallFailed /\ call.log = <<"4xx">>

\* C9: when every attempt receives a 5xx response the call sends exactly
\* 3 requests before it fails; when 5xx responses are followed by a
\* well-formed response on the 2nd or 3rd attempt the call returns that
\* translation.
C9_ServerErrorsRetried ==
    /\ call.log # <<>> /\ AllLogIn({"5xx"}) =>
           /\ Len(call.log) <= max_retries
           /\ Len(call.log) < max_retries => call.result = "none"
           /\ call.pc = "done" =>
                  Len(call.log) = max_retries /\ call.result = "raise"
    /\ /\ Len(call.log) \in {2, 3}
       /\ \A k \in 1..(Len(call.log) - 1) : call.log[k] = "5xx"
       /\ Last(call.log) = "ok"
       => /\ call.pc = "done"
          /\ call.result = "return"
          /\ call.value \in {TranslatedText(c) : c \in Contents(call.text)}

\* two 5xx responses, then a translation on the 3rd attempt
C9_Witness ==
    /\ call.log = <<"5xx", "5xx", "ok">>
    /\ call.result = "return"

\* the messages the caller raises for a non-retryable error
FatalMessages ==
    {TranslateError(StatusErrorMessage(st)) : st \in {302, 400}}
    \cup {TranslateError(<<"translation_processing_failed", m>>) :
             m \in {"bad_response_format", "bad_message_format",
                    "empty_result"}}

\* the message tells a spent budget from a non-retryable error: it is not
\* of the form raised for a 4xx response or a malformed body
IsFatalForm(msg) ==
    /\ Len(msg) >= 2
    /\ msg[2] = "translation_processing_failed"

\* C10: whenever the call fails with its retry budget spent (by timeouts,
\* by 5xx responses or by a mix), the failure is a retries-exhausted
\* condition that names the number of attempts and differs from every
\* failure raised for a non-retryable error.
C10_ExhaustionDistinct ==
    /\ CallFailed
    /\ call.retry_count >= max_retries
    /\ AllLogIn({"timeout", "5xx"})
    => /\ IsRetriesExhausted(call.value)
       /\ ~IsFatalForm(call.value)
       /\ call.value \notin FatalMessages

\* ------------------------------------------ claims about the Segmenter
\* the chunks one after the other, nothing between them
RECURSIVE Concat(_)
Concat(chunks) ==
    IF chunks = <<>> THEN <<>> ELSE Head(chunks) \o Concat(Tail(chunks))

\* the text is one atomic unit: it has no paragraph break and no sentence
\* break
IsAtomic(text) ==
    /\ StrSplit(text, <<"\n", "\n">>) = <<text>>
    /\ SentenceSplit(text) = <<text>>

\* C11: for every text and maximum length L > 0, every chunk the
\* Segmenter returns has at most L characters; a single atomic unit longer
\* than L is force-sliced into consecutive windows of at most L characters.
C11_ChunkLengthBounded ==
    seg.pc = "done" =>
        /\ \A k \in 1..Len(seg.chunks) : Len(seg.chunks[k]) <= seg.size
        /\ IsAtomic(seg.text) /\ Len(seg.text) > seg.size =>
               /\ Len(seg.chunks) =
                      (Len(seg.text) + seg.size - 1) \div seg.size
               /\ Concat(seg.chunks) = seg.text

\* an atomic unit longer than L has been sliced into a full window and a
\* shorter rest
C11_Witness ==
    /\ seg.pc = "done"
    /\ IsAtomic(seg.text)
    /\ Len(seg.text) > seg.size
    /\ Len(seg.chunks) >= 2
    /\ Len(seg.chunks[1]) = seg.size
    /\ Len(Last(seg.chunks)) < seg.size

\* text from position i on is chunks k, k+1, ... in order, each where it
\* stands in the text, with nothing but separator characters (blanks and
\* newlines) before, between and after them
RECURSIVE ReassemblesFrom(_, _, _, _)
ReassemblesFrom(text, i, chunks, k) ==
    IF k > Len(chunks)
    THEN \A q \in i..Len(text) : text[q] \in Whitespace
    ELSE \E p \in i..(Len(text) + 1) :
            /\ \A q \in i..(p - 1) : text[q] \in Whitespace
            /\ StartsWithAt(text, p, chunks[k])
            /\ ReassemblesFrom(text, p + Len(chunks[k]), chunks, k + 1)

\* C12: for every text T and maximum length L > 0, the chunks the
\* Segmenter returns, put back in order with the separators of T between
\* them, are T exactly: no character of T, sentence terminators included,
\* is lost, added or reordered.
C12_RoundTrip ==
    seg.pc = "done" => ReassemblesFrom(seg.text, 1, seg.chunks, 1)

\* what the Segmenter makes of a text that is handled as one paragraph
SingleParagraph(text, size) ==
    IF Len(text) > size THEN split_paragraph_by_sentences(text, size)
    ELSE IF text = <<>> THEN <<>>
    ELSE <<Strip(text)>>

\* C13: the Segmenter never fails: for every text and maximum length the
\* call returns an ordered list of chunks; the empty text gives zero
\* chunks, and a text without a paragraph break is handled as a single
\* paragraph.
C13_SegmenterTotal ==
    /\ seg.pc = "input" =>
           LET chunks == split_text_into_chunks(seg.text, seg.size)
           IN  DOMAIN chunks = 1..Len(chunks)
    /\ seg.pc = "done" =>
           /\ DOMAIN seg.chunks = 1..Len(seg.chunks)
           /\ \A k \in 1..Len(seg.chunks) :
                  \A j \in 1..Len(seg.chunks[k]) :
                      seg.chunks[k][j] \in SegAlphabet
           /\ seg.text = <<>> => seg.chunks = <<>>
           /\ ~Contains(seg.text, <<"\n", "\n">>) =>
                  seg.chunks = SingleParagraph(seg.text, seg.size)

\* a text with one newline, which is no paragraph break, has come back as
\* one chunk
C13_Witness ==
    /\ seg.pc = "done"
    /\ seg.text = <<"a", "\n", "a">>
    /\ seg.chunks = <<seg.text>>

\* ------------------------------------------ claims about task records
\* what a status reader is given is whole
WholeRecord(r) ==
    /\ r.status = "completed" =>
           IsOne(r.progress) /\ r.completed_at # NoTime
    /\ r.status = "failed" => r.error_message # NoneText

\* C14: a status reader that runs between any two steps of a job never
\* sees a partial update of a task record: not Completed with progress
\* below 1.0 or without a completion timestamp, and not Failed without an
\* error description.
C14_NoTornRead ==
    /\ \A t \in DOMAIN active_tasks : WholeRecord(get_translation_status(t))
    /\ \A t \in DOMAIN audio_tasks : WholeRecord(get_audio_status(t))

\* a reader sees a Completed translation of a chapter without chunks and
\* a Failed audio task
C14_Witness ==
    /\ \E t \in DOMAIN active_tasks :
           /\ get_translation_status(t).status = "completed"
           /\ job[t].chunks = <<>>
    /\ \E t \in DOMAIN audio_tasks : get_audio_status(t).status = "failed"

\* the optional fields of a task record agree with its status
FieldsAgree(task) ==
    /\ task.completed_at # NoTime <=> task.status \in {"completed", "failed"}
    /\ task.error_message # NoneText <=> task.status = "failed"

\* C15: in every reachable state of a translation task or an audio task,
\* the completion timestamp is set exactly when the status is Completed or
\* Failed, and the error description is set exactly when the status is
\* Failed.
C15_TimestampAndError ==
    /\ \A t \in DOMAIN active_tasks : FieldsAgree(active_tasks[t])
    /\ \A t \in DOMAIN audio_tasks : FieldsAgree(audio_tasks[t])

\* ------------------------------------------------ claims about cleanup
\* the tasks of the registry that are Completed or Failed and whose
\* completion time is max_age hours old or older
Removable(max_age) ==
    {t \in DOMAIN active_tasks :
        /\ active_tasks[t].status \in Terminal
        /\ clock - active_tasks[t].completed_at >= max_age}

\* a step that is a cleanup call removes exactly the removable tasks
CleanupStep ==
    cleaned'.calls # cleaned.calls =>
        /\ DOMAIN active_tasks' =
               DOMAIN active_tasks \ Removable(cleaned'.max_age)
        /\ cleaned'.count = Cardinality(Removable(cleaned'.max_age))
        /\ \A t \in DOMAIN active_tasks' :
               active_tasks'[t] = active_tasks[t]
        /\ \A t \in DOMAIN active_tasks :
               active_tasks[t].status \in {"pending", "in_progress"} =>
                   t \in DOMAIN active_tasks'
        /\ cleaned'.max_age = 0 =>
               \A t \in DOMAIN active_tasks' :
                   active_tasks'[t].status \notin Terminal

\* C16: cleanup(maxAgeHours) removes from the registry exactly the tasks
\* that are Completed or Failed and whose completion time is older than
\* the threshold, and returns their count; with maxAgeHours = 0 it removes
\* every Completed or Failed task; it never removes a Pending or
\* InProgress task, however old.
C16_CleanupExact == [][CleanupStep]_vars

\* a cleanup with a threshold of one hour has removed one task and has
\* left an older InProgress task and a younger Completed or Failed task
C16_Witness ==
    /\ cleaned.calls = 1
    /\ cleaned.max_age = 1
    /\ cleaned.count = 1
    /\ \E t \in DOMAIN active_tasks :
           /\ active_tasks[t].status = "in_progress"
           /\ clock - active_tasks[t].created_at >= 1

\* ------------------------------------------------ claims about progress
\* the chapter content of task t was fetched, every chunk's call returned
\* a translation, and the save raised nothing
SuccessfulRun(t) ==
    /\ get_chapter_content(active_tasks[t].book_id,
                           active_tasks[t].chapter_id).ok
    /\ \A k \in 1..Len(job[t].chunks) : hist[t].results[k] # NoneText
    /\ active_tasks[t].error_message \notin
           {<<"os_error", "open">>, <<"os_error", "write">>}

\* task t has ended, and ended Completed with progress 1.0 if its run was
\* successful
Settled(t) ==
    /\ t \in DOMAIN active_tasks
    /\ active_tasks[t].status \in Terminal
    /\ SuccessfulRun(t) =>
           /\ active_tasks[t].status = "completed"
           /\ IsOne(active_tasks[t].progress)

\* C17: provided every remote call returns, every chapter translation
\* task that is created eventually leaves Pending and reaches Completed
\* or Failed; if the content was fetched, every chunk's call returned a
\* translation and the save succeeded, it reaches Completed with progress
\* 1.0.
C17_TaskTerminates ==
    \A t \in TaskIds :
        (t \in DOMAIN active_tasks /\ active_tasks[t].status = "pending")
            ~> Settled(t)

\* a two-chunk chapter has been translated after a retry and is Completed
C17_Witness ==
    \E t \in DOMAIN active_tasks :
        /\ Settled(t)
        /\ SuccessfulRun(t)
        /\ Len(job[t].chunks) = 2
        /\ Len(hist[t].calls) = 2

\* the step fails task t of the registry before/after
BecomesFailed(before, after, t) ==
    /\ t \in DOMAIN before
    /\ before[t].status # "failed"
    /\ after[t].status = "failed"

\* every task of the registry that the step fails keeps its progress
FailureKeepsProgress(before, after) ==
    \A t \in TaskIds :
        BecomesFailed(before, after, t) =>
            after[t].progress = before[t].progress

\* C18: the step that takes a translation or audio task to Failed leaves
\* the task's progress as it was: it is neither reset to 0 nor raised to
\* 1.0.
C18_FailedKeepsProgress ==
    [][/\ FailureKeepsProgress(active_tasks, active_tasks')
       /\ FailureKeepsProgress(audio_tasks, audio_tasks')]_vars

\* a translation job has failed after one of its two chunks was translated
C18_Witness ==
    \E t \in DOMAIN active_tasks :
        /\ active_tasks[t].status = "failed"
        /\ active_tasks[t].progress = ChunkProgress(0, 2)
        /\ Len(job[t].chunks) = 2

\* ----------------------------------------------- claims about job errors
\* translation job t has ended on an error: it is over and did not mark
\* its task Completed, or one of its translate() calls raised
TranslationJobRaised(t) ==
    \/ job[t].pc = "done" /\ Last(hist[t].status_log) # "completed"
    \/ hist[t].call_error # NoneText

\* audio job t is over and did not mark its task Completed
AudioJobRaised(t) ==
    audio_job[t].pc = "done" /\ Last(audio_job[t].status_log) # "completed"

\* the task record is Failed and carries a message
RecordedAsFailed(task) ==
    /\ task.status = "failed"
    /\ task.error_message \notin {NoneText, <<>>}

\* C19: an error raised while a scheduled translation or audio job runs
\* is recorded on the job's task as status Failed with a message, and the
\* caller that triggered the job keeps the task id it was given: no step
\* of the job turns that reply into an error.
C19_JobErrorsRecorded ==
    \A t \in TaskIds :
        /\ job[t].pc # "none" => hist[t].reply = TaskIdReply
        /\ audio_job[t].pc # "none" => audio_job[t].reply = TaskIdReply
        /\ TranslationJobRaised(t) => RecordedAsFailed(active_tasks[t])
        /\ AudioJobRaised(t) => RecordedAsFailed(audio_tasks[t])

\* a translation job has failed on a call error and an audio job has
\* failed; both callers hold a task id
C19_Witness ==
    \E t, u \in TaskIds :
        /\ hist[t].call_error # NoneText
        /\ job[t].pc = "done"
        /\ hist[t].reply = TaskIdReply
        /\ AudioJobRaised(u)
        /\ audio_job[u].reply = TaskIdReply

\* ------------------------------------- claims about the chapter provider
\* the job of task t has run its first step
Started(t) == job[t].pc \notin {"none", "scheduled"}

\* chapter_id is the id or the name of a chapter of book book_id
IsChapterOf(book_id, chapter_id) ==
    /\ book_id \in KnownBooks
    /\ \E k \in 1..Len(BookItems) :
           BookItems[k].id = chapter_id \/ BookItems[k].name = chapter_id

\* some chapter of book book_id has the id chapter_id, a name that ends
\* with chapter_id, or a name or id that contains chapter_id when case is
\* ignored
Resolves(book_id, chapter_id) ==
    /\ book_id \in KnownBooks
    /\ \E k \in 1..Len(BookItems) :
           \/ BookItems[k].id = chapter_id
           \/ EndsWith(BookItems[k].name, chapter_id)
           \/ Contains(Lower(BookItems[k].name), Lower(chapter_id))
           \/ Contains(Lower(BookItems[k].id), Lower(chapter_id))

\* the messages of the provider's not-found errors for task
NotFoundMessages(task) ==
    {<<"book_not_found", task.book_id>>,
     <<"chapter_not_found">> \o task.chapter_id}

\* the job of task t ended Failed on not-found without a translation call
EndedNotFound(t) ==
    /\ job[t].pc = "done"
    /\ active_tasks[t].status = "failed"
    /\ active_tasks[t].error_message \in NotFoundMessages(active_tasks[t])
    /\ hist[t].calls = <<>>

\* C20 as stated: a job started on an unknown book, or on a chapter id
\* that is not the id or name of a chapter of the book, ends Failed on
\* not-found and issues no translation request.
C20_AsClaimed ==
    \A t \in TaskIds :
        (Started(t) /\ ~IsChapterOf(active_tasks[t].book_id,
                                    active_tasks[t].chapter_id))
            => EndedNotFound(t)

\* C20: a job started on an unknown book, or on a chapter id that no
\* chapter of the book resolves (by id, by the end of its name, or by a
\* fragment of its name or id in any case), ends Failed on not-found and
\* issues no translation request; a job whose chapter id resolves never
\* fails on not-found.
C20_NotFound ==
    \A t \in TaskIds :
        Started(t) =>
            IF Resolves(active_tasks[t].book_id, active_tasks[t].chapter_id)
            THEN active_tasks[t].error_message
                     \notin NotFoundMessages(active_tasks[t])
            ELSE EndedNotFound(t)

\* a job on an unknown chapter id and a job on an unknown book have both
\* ended on not-found
C20_Witness ==
    \E t, u \in TaskIds :
        /\ EndedNotFound(t) /\ active_tasks[t].book_id \in KnownBooks
        /\ EndedNotFound(u) /\ active_tasks[u].book_id \notin KnownBooks

\* ------------------------------------------------ claims about merging
\* the durations of the chapter files the book merge has put together
MergedItems ==
    [k \in 1..Len(book.audio_files) |-> audio_files[book.audio_files[k]]]

\* timeline is the items ds in order with one silence of duration s
\* between consecutive items and none before the first or after the last
IsJoined(timeline, ds, s) ==
    /\ Len(timeline) = 2 * Len(ds) - 1
    /\ \A k \in 1..Len(timeline) :
           IF k % 2 = 1
           THEN timeline[k] = Part(FALSE, ds[(k + 1) \div 2])
           ELSE timeline[k] = Part(TRUE, s)

\* C21: merging n >= 1 audio items in index order with a fixed silence s
\* between consecutive items gives an artifact of duration the sum of the
\* item durations plus (n-1)*s, with no silence before the first or after
\* the last item, for the book merge (s = 2 s) and for the segment merge
\* (s = 0.5 s); items of 10 s, 8 s and 12 s with 2 s silences give 34 s.
C21_MergedDuration ==
    book.merged # <<>> =>
        /\ Len(MergedItems) >= 1
        /\ IsJoined(book.merged, MergedItems, BookSilence)
        /\ TimelineDuration(book.merged) =
               SumSeq(MergedItems) + (Len(MergedItems) - 1) * BookSilence
        /\ IsJoined(MergeTimeline(MergedItems, SegmentSilence), MergedItems,
                    SegmentSilence)
        /\ MergedDuration(MergedItems) =
               SumSeq(MergedItems) + (Len(MergedItems) - 1) * SegmentSilence
        /\ MergedItems = <<20, 16, 24>> =>
               TimelineDuration(book.merged) = 68

\* chapters of 10 s, 8 s and 12 s have been merged into 34 s
C21_Witness ==
    /\ book.pc = "done"
    /\ MergedItems = <<20, 16, 24>>
    /\ TimelineDuration(book.merged) = 68

\* C22: the total duration recorded in the metadata of the merged book
\* equals the sum of the chapter durations plus the inter-chapter
\* silences the merge inserted, which is the duration of the merged file.
C22_MetadataDuration ==
    book.ok =>
        /\ book.metadata.total_duration =
               SumSeq(MergedItems) + (Len(MergedItems) - 1) * BookSilence
        /\ book.metadata.total_duration = TimelineDuration(book.merged)

\* positions of book.chapter_ids whose chapter audio file is absent
MissingChapters ==
    {k \in 1..Len(book.chapter_ids) :
        ~FileExists(audio_files,
                    audio_path(book.book_id, book.chapter_ids[k]))}

\* positions of book.chapter_ids whose chapter audio file is absent or
\* cannot be decoded
UnreadableChapters ==
    MissingChapters \cup
    {k \in 1..Len(book.chapter_ids) :
        audio_files[audio_path(book.book_id, book.chapter_ids[k])] = Corrupt}

\* the call raised and wrote neither the merged file nor the metadata
AbortedUnwritten ==
    /\ ~book.ok
    /\ Head(book.result) = "merge_book_failed"
    /\ book.merged = <<>>
    /\ book.metadata = NoMetadata

C24_PathsUnique ==
    (located.pc = "done" /\ located.a # located.b) =>
        /\ located.translation[1] # located.translation[2]
        /\ located.audio[1] # located.audio[2]

\* ------------------------------------------- claims about the audio job
\* audio job t is over, every segment was synthesized and the merge
\* raised nothing
MergedSuccessfully(t) ==
    /\ audio_job[t].pc = "done"
    /\ audio_job[t].segments # <<>>
    /\ Len(audio_job[t].audio_segments) = Len(audio_job[t].segments)
    /\ audio_tasks[t].error_message # <<"merge_failed">>

\* C25: a failure to delete a per-segment file after a successful chapter
\* merge does not change the outcome: the task still ends Completed, so
\* every job whose merge succeeded ends Completed.
C25_DeletionSwallowed ==
    \A t \in DOMAIN audio_tasks :
        MergedSuccessfully(t) => audio_tasks[t].status = "completed"

\* ------------------------------------------- claims about the digits
\* C26: every translated chunk is digit-normalized: after the transform
\* no Arabic numeric literal remains in a Chinese-target chunk, whatever
\* characters surround the literal.
C26_NoDigitRemains ==
    call.result = "return" =>
        \A k \in 1..Len(call.value) : call.value[k] \notin Digits

InSynthesis(t) ==
    audio_job[t].pc \in {"submit", "poll", "poll_sleep", "download"}

\* the protocol record p has one submit, at its head; each poll follows
\* the submit's 200 or a poll that reported processing; the download
\* follows a poll that reported completed
InProtocolOrder(p) ==
    \A k \in 1..Len(p) :
        /\ p[k] = "POST /tts" <=> k = 1
        /\ p[k] = "GET /task" =>
               \/ k = 3 /\ p[2] = "200"
               \/ k > 3 /\ p[k - 1] = "processing" /\ p[k - 2] = "GET /task"
        /\ p[k] = "GET /audio" =>
               k > 3 /\ p[k - 1] = "completed" /\ p[k - 2] = "GET /task"
        /\ p[k] \in {"failed", "http_error"} => k = Len(p)

\* C28: one speech-synthesis call makes exactly one submit, then polls
\* the status, and requests the download only after a poll has reported
\* completed; a poll that reports failed, or a non-success HTTP answer,
\* ends the call with an error, and no audio file is written for the
\* segment.
C28_SynthesisProtocol ==
    \A t \in DOMAIN audio_tasks :
        LET p == audio_job[t].protocol IN
        /\ InProtocolOrder(p)
        /\ InSynthesis(t) => (audio_job[t].i + 1) \notin segment_files[t]
        /\ (p # <<>> /\ Last(p) \in {"failed", "http_error"}) =>
               /\ audio_job[t].pc = "done"
               /\ audio_tasks[t].status = "failed"
               /\ Head(audio_tasks[t].error_message) = "tts_failed"
               /\ (audio_job[t].i + 1) \notin segment_files[t]
        /\ (audio_job[t].i + 1) \in segment_files[t] =>
               /\ Len(p) >= 2
               /\ p[Len(p) - 1] = "GET /audio" /\ Last(p) = "200"

\* a call has polled twice, was told completed, and failed on the download
C28_Witness ==
    \E t \in DOMAIN audio_tasks :
        /\ audio_job[t].protocol =
               <<"POST /tts", "200", "GET /task", "processing",
                 "GET /task", "completed", "GET /audio", "http_error">>
        /\ audio_tasks[t].status = "failed"

\* ----------------------------------- claims about the audio progress
\* the fractions p and q are equal
FracEq(p, q) == p[1] * q[2] = q[1] * p[2]

\* C29: while a chapter audio task is InProgress with k of its n segments
\* synthesized its progress is 0.8 * k / n, hence at most 0.8; the
\* progress is 1.0 only when the task is Completed, after the merge has
\* written the chapter artifact.
C29_AudioProgress ==
    \A t \in DOMAIN audio_tasks :
        LET k == Len(audio_job[t].audio_segments)
            n == Len(audio_job[t].segments)
        IN  /\ (audio_tasks[t].status = "in_progress" /\ n > 0) =>
                   /\ FracEq(audio_tasks[t].progress, <<8 * k, 10 * n>>)
                   /\ FracLeq(audio_tasks[t].progress, <<8, 10>>)
            /\ audio_tasks[t].status \in {"pending", "in_progress"} =>
                   ~IsOne(audio_tasks[t].progress)
            /\ IsOne(audio_tasks[t].progress) =>
                   /\ audio_tasks[t].status = "completed"
                   /\ k = n
                   /\ audio_files[audio_path(audio_tasks[t].book_id,
                                             audio_tasks[t].chapter_id)]
                          # NoTime

\* the first of several segments has been synthesized and the next one
\* is being submitted: the progress is 0.8 / n, below 0.8
C29_Witness ==
    \E t \in DOMAIN audio_tasks :
        /\ audio_tasks[t].status = "in_progress"
        /\ audio_job[t].pc = "submit"
        /\ Len(audio_job[t].segments) >= 2
        /\ Len(audio_job[t].audio_segments) = 1
        /\ audio_tasks[t].progress = <<8, 10 * Len(audio_job[t].segments)>>

\* ------------------------------- claims about the speech Segmenter
\* the sentences of a segment: its text without the closing full stop,
\* split on the full stop
SentencesOf(segment) ==
    StrSplit(SubSeq(segment, 1, Len(segment) - 1), <<"juhao">>)

\* C30: every segment returned by _split_text_for_tts is at most
\* max_length characters long, unless it is one single sentence that is
\* itself longer than max_length.
C30_SegmentsBounded ==
    seg.pc = "tts_done" =>
        \A i \in 1..Len(seg.chunks) :
            \/ Len(seg.chunks[i]) <= seg.size
            \/ /\ Len(SentencesOf(seg.chunks[i])) = 1
               /\ Len(SentencesOf(seg.chunks[i])[1]) > seg.size

\* ------------------------------------ claims about paragraph packing
\* the paragraphs of the text the Segmenter was called with
ParagraphsOf(text) == StrSplit(text, <<"\n", "\n">>)

\* length of paragraphs i..j joined by the paragraph separator
RECURSIVE JoinedLen(_, _, _)
JoinedLen(ps, i, j) ==
    IF i = j THEN Len(ps[i]) ELSE Len(ps[i]) + 2 + JoinedLen(ps, i + 1, j)

\* least number of groups of consecutive paragraphs i.. of ps, each group
\* joined within size (every paragraph fits alone)
RECURSIVE MinGroups(_, _, _)
MinGroups(ps, i, size) ==
    IF i > Len(ps) THEN 0
    ELSE LET counts == {1 + MinGroups(ps, j + 1, size) :
                           j \in {e \in i..Len(ps) :
                                      JoinedLen(ps, i, e) <= size}}
         IN  CHOOSE c \in counts : \A d \in counts : c <= d

AllFit(ps, size) == \A i \in 1..Len(ps) : Len(ps[i]) <= size

\* C31 as stated: when no paragraph exceeds the maximum length, the number
\* of chunks is the least number of groups of consecutive paragraphs that
\* fit the maximum length when joined by the paragraph separator.
C31_AsClaimed ==
    (seg.pc = "done" /\ AllFit(ParagraphsOf(seg.text), seg.size)) =>
        Len(seg.chunks) = MinGroups(ParagraphsOf(seg.text), 1, seg.size)

\* C31 amended: when no paragraph exceeds the maximum length, the number
\* of chunks never exceeds that least number of groups, and equals it when
\* no paragraph is empty; an empty paragraph that opens a group is dropped
\* and makes no chunk.
C31_MinimalPacking ==
    (seg.pc = "done" /\ AllFit(ParagraphsOf(seg.text), seg.size)) =>
        LET ps == ParagraphsOf(seg.text) IN
        /\ Len(seg.chunks) <= MinGroups(ps, 1, seg.size)
        /\ (\A i \in 1..Len(ps) : ps[i] # <<>>) =>
               Len(seg.chunks) = MinGroups(ps, 1, seg.size)

\* four non-empty paragraphs were packed two by two into two chunks
C31_Witness ==
    /\ seg.pc = "done"
    /\ Len(ParagraphsOf(seg.text)) = 4
    /\ \A i \in 1..4 : ParagraphsOf(seg.text)[i] # <<>>
    /\ AllFit(ParagraphsOf(seg.text), seg.size)
    /\ Len(seg.chunks) = 2
    /\ MinGroups(ParagraphsOf(seg.text), 1, seg.size) = 2

\* -------------------------------- claims about the expansion rules
\* the conventional Chinese reading of 0 <= n < 1000
Conventional(n) ==
    LET d(k)  == digit_map[DigitStr(k)]
        ones  == n % 10
        tens  == (n \div 10) % 10
        below == IF tens = 0 /\ ones = 0 THEN <<>>
                 ELSE IF tens = 0 THEN <<"ling", d(ones)>>
                 ELSE <<d(tens), "shi">>
                      \o (IF ones = 0 THEN <<>> ELSE <<d(ones)>>)
    IN  IF n < 10 THEN <<d(n)>>
        ELSE IF n < 20
        THEN <<"shi">> \o (IF ones = 0 THEN <<>> ELSE <<d(ones)>>)
        ELSE IF n < 100
        THEN <<d(tens), "shi">> \o (IF ones = 0 THEN <<>> ELSE <<d(ones)>>)
        ELSE <<d(n \div 100), "bai">> \o below

\* an integer literal as the prompt documents it: four digits are a year,
\* read digit by digit, anything shorter is read conventionally
IntegerReading(part) ==
    IF Len(part) = 4 THEN [k \in 1..4 |-> digit_map[part[k]]]
    ELSE Conventional(ToInt(part))

\* no leading zero
Canonical(part) == Len(part) = 1 \/ part[1] # "0"

\* the literal read by the three documented rules
DocumentedReading(literal) ==
    LET parts == StrSplit(literal, <<".">>) IN
    IF Len(parts) = 1 THEN IntegerReading(literal)
    ELSE IF Len(parts) = 2
    THEN IntegerReading(parts[1]) \o <<"dian">>
         \o [k \in 1..Len(parts[2]) |-> digit_map[parts[2][k]]]
    ELSE StrJoin([k \in 1..Len(parts) |-> IntegerReading(parts[k])],
                 <<"dian">>)

\* the parts of the literal that are read as integers
IntegerParts(literal) ==
    LET parts == StrSplit(literal, <<".">>) IN
    IF Len(parts) = 2 THEN {parts[1]} ELSE {parts[k] : k \in 1..Len(parts)}

\* C32: the transform follows the rules documented in the prompt: an
\* integer is read in conventional Chinese form (10 -> shi, 25 -> er shi
\* wu, 100 -> yi bai), a four-digit year digit by digit; a decimal is the
\* integer part, dian, the fraction digit by digit; a version number is
\* its parts joined by dian.
C32_ExpansionRules ==
    (/\ call.result = "return"
     /\ call.text \in NumberLiterals
     /\ \A part \in IntegerParts(call.text) :
            Canonical(part) /\ Len(part) <= 4) =>
        call.value = DocumentedReading(call.text)

\* ------------------------------- claims about the attempt counter
\* the attempts of the call that failed with a timeout, a connection
\* error or a 5xx response
FailedAttempts ==
    {k \in 1..Len(call.log) : call.log[k] \in {"timeout", "connect", "5xx"}}

\* the requests sent so far are within the budget, each failure of the
\* three classes has been counted once, and the 3rd request ends the call
WithinBudget ==
    /\ Len(call.log) <= max_retries
    /\ call.retry_count = Cardinality(FailedAttempts)
    /\ call.retry_count <= max_retries
    /\ Len(call.log) = max_retries => call.pc = "done"
    /\ call.pc = "done" => call.result \in {"return", "raise"}

\* C33: in one translation call, however timeouts, connection errors and
\* 5xx responses are interleaved, at most 3 requests are sent: one counter
\* counts the failures of all classes, it only increases, and the call
\* has ended, with a result or an error, once the 3rd request is answered.
C33_SharedBudget ==
    /\ []WithinBudget
    /\ [][call'.retry_count >= call.retry_count]_vars

\* a timeout, a 5xx response and a second timeout have ended the call
C33_Witness ==
    /\ call.log = <<"timeout", "5xx", "timeout">>
    /\ call.retry_count = max_retries
    /\ call.result = "raise"

\* --------------------------------- claims about the speech service
\* C34: whenever GET /task/{id} reports completed, the same answer
\* carries an audio_url that is not null, whose file exists, also when
\* the status is read while the thread is finishing the task.
C34_CompletedHasUrl ==
    \A task_id \in SpeechIds :
        speech.replies[task_id].status = "completed" =>
            /\ speech.replies[task_id].audio_url # NoneText
            /\ task_id \in speech.files

\* ------------------------- claims about the book merge's file names
\* C35: the file name merge_book_audio computes for (bookId, chapterId)
\* is the file name the chapter audio job wrote, also for chapter ids
\* that contain a slash, a backslash or a colon.
C35_BookFindsChapter ==
    located.pc = "done" =>
        /\ located.book_audio[1] = located.audio[1]
        /\ located.book_audio[2] = located.audio[2]

\* ------------------------- claims about two jobs of one chapter
\* the jobs whose output file is p
JobsOf(p) == {t \in DOMAIN active_tasks : TaskPath(t) = p}

\* the joined translations of all the chunks of job t
FullOutput(t) == StrJoin(hist[t].results, <<"\n", "\n">>)

\* job t has translated every chunk of its chapter
HasFullOutput(t) ==
    /\ job[t].pc = "done"
    /\ Len(hist[t].results) = Len(job[t].chunks)
    /\ \A k \in 1..Len(job[t].chunks) : hist[t].results[k] # NoneText

\* after the jobs of p have all Completed the file holds the output of
\* the one that saved last
LastSaverWins(p) ==
    (/\ JobsOf(p) # {}
     /\ \A t \in JobsOf(p) : active_tasks[t].status = "completed") =>
        /\ writer[p] \in JobsOf(p)
        /\ translations[p] = FullOutput(writer[p])

\* C36 as stated: with jobs for the same (bookId, chapterId) running
\* concurrently the persisted translation is at every moment absent or
\* the complete joined output of exactly one job, never a mixture of
\* chunks of both, and once both have Completed it is the output of the
\* job that persisted last.
C36_AsClaimed ==
    \A p \in TranslationPaths :
        /\ \/ translations[p] = NoneText
           \/ \E t \in JobsOf(p) :
                  HasFullOutput(t) /\ translations[p] = FullOutput(t)
        /\ LastSaverWins(p)

\* C36 amended: the persisted translation is at every moment absent, or
\* the complete joined output of the one job that saved last, or the
\* empty file left by the job that saved last when its write failed
\* (that job is Failed); it is never a mixture of chunks of two jobs, and
\* once the jobs have all Completed it is the output of the last saver.
C36_OneJobsOutput ==
    \A p \in TranslationPaths :
        /\ \/ translations[p] = NoneText /\ writer[p] = 0
           \/ /\ writer[p] \in JobsOf(p)
              /\ HasFullOutput(writer[p])
              /\ \/ translations[p] = FullOutput(writer[p])
                 \/ /\ translations[p] = <<>>
                    /\ active_tasks[writer[p]].status = "failed"
                    /\ active_tasks[writer[p]].error_message
                           = <<"os_error", "write">>
        /\ LastSaverWins(p)

\* two jobs of one two-chunk chapter have Completed with different
\* outputs, and the file holds the output of the second job
C36_Witness ==
    /\ DOMAIN active_tasks = {1, 2}
    /\ TaskPath(1) = TaskPath(2)
    /\ active_tasks[1].status = "completed"
    /\ active_tasks[2].status = "completed"
    /\ Len(job[1].chunks) = 2
    /\ FullOutput(1) # FullOutput(2)
    /\ writer[TaskPath(1)] = 2
    /\ translations[TaskPath(1)] = FullOutput(2)

\* ------------------------------- claims about the segment files
\* C37: no per-segment audio file outlives its chapter audio job: once
\* the job is in a terminal state, Completed or Failed, every segment
\* file it created has been deleted.
C37_NoSegmentLeftBehind ==
    \A t \in DOMAIN audio_tasks :
        audio_tasks[t].status \in {"completed", "failed"} =>
            segment_files[t] = {}

\* ------------------------------------ claims about the poll loop
\* the call of task_id has been answered a status that is not pending or
\* processing
SawFinalStatus(task_id) ==
    speech.replies[task_id].status \in {"completed", "failed"}

\* the call of task_id polls again only after a pending or processing
\* answer; a failed answer has made it raise and a completed answer has
\* sent it to the download, after which it returned or raised
LeavesLoop(task_id) ==
    /\ speech.client[task_id] \in {"poll", "sleep"} =>
           ~SawFinalStatus(task_id)
    /\ speech.replies[task_id].status = "failed" =>
           speech.client[task_id] = "raised"
    /\ speech.replies[task_id].status = "completed" =>
           speech.client[task_id] \in {"download", "returned", "raised"}
    /\ speech.client[task_id] = "returned" =>
           /\ speech.replies[task_id].status = "completed"
           /\ task_id \in speech.files

\* the poll made once the task has stopped is the last one: it does not
\* lead to the sleep
LastPoll(task_id) ==
    (/\ speech.client[task_id] = "poll"
     /\ task_id \in DOMAIN speech.tasks
     /\ speech.tasks[task_id].status \in {"completed", "failed"}
     /\ speech'.client[task_id] # "poll") =>
        speech'.client[task_id] \in {"download", "raised"}

\* C38: the poll loop of a speech-synthesis call ends: once the service
\* reports a status other than pending or processing (it reports only
\* completed and failed besides), the call returns or raises without
\* another poll.
C38_PollLoopEnds ==
    /\ [](\A task_id \in SpeechIds : LeavesLoop(task_id))
    /\ [][\A task_id \in SpeechIds : LastPoll(task_id)]_vars

\* the thread has finished its task, the call was answered completed with
\* the audio URL, downloaded the file and returned
C38_Witness ==
    \E task_id \in SpeechIds :
        /\ speech.client[task_id] = "returned"
        /\ speech.replies[task_id].status = "completed"
        /\ speech.replies[task_id].audio_url = audio_url(task_id)
        /\ speech.thread[task_id] = "returned"

\* ------------------------ claims about requests for chapter audio
\* the translation file of the (book, chapter) of record r
TranslationOf(r) == translations[translation_path(r.book_id, r.chapter_id)]

\* a step in which a generate_chapter_audio call raises
Rejects == rejected' # rejected

\* a step that creates audio task t for a call without translation id
CreatesWithoutId(t) ==
    /\ t \notin DOMAIN audio_tasks
    /\ t \in DOMAIN audio_tasks'
    /\ audio_tasks'[t].translation_id = ""

\* C39: generate_chapter_audio without a translation id, for a chapter
\* that has no persisted non-empty translation, raises to the caller and
\* leaves the audio registry as it was: no task is created and no job is
\* scheduled; a task without translation id is created only for a chapter
\* whose translation exists and is not empty.
C39_RejectedWithoutTask ==
    /\ [][Rejects =>
            /\ TranslationOf(rejected') \in {NoneText, <<>>}
            /\ rejected'.error # NoneText
            /\ audio_tasks' = audio_tasks
            /\ audio_job' = audio_job]_vars
    /\ [][\A t \in TaskIds :
              CreatesWithoutId(t) =>
                  /\ TranslationOf(audio_tasks'[t]) \notin {NoneText, <<>>}
                  /\ ~Rejects]_vars

\* a call for a chapter whose translation file is empty has raised, and
\* the audio registry is empty
C39_Witness ==
    /\ rejected.error # NoneText
    /\ TranslationOf(rejected) = <<>>
    /\ audio_tasks = <<>>
    /\ \A t \in TaskIds : audio_job[t].pc = "none"

\* --------------------------------- claims about the chunks' content
\* C40: the Segmenter never returns an empty chunk: for every text and
\* maximum length, each returned chunk holds at least one character.
C40_NoEmptyChunk ==
    seg.pc = "done" =>
        \A i \in 1..Len(seg.chunks) : seg.chunks[i] # <<>>

====
